---- MODULE Spec2Model ----
(***************************************************************************)
(* A model of FileLine's pipeline core: the entity store (core/models.py), *)
(* the processor registry and DataProcessor (core/processing.py), the      *)
(* PipelineRunner with its incremental ingestion and step cache            *)
(* (core/pipeline.py), the tag command and the lineage tree builder        *)
(* (commands/data_commands).                                               *)
(*                                                                         *)
(* Text is modelled as sequences of one-character strings, so that the     *)
(* cache key is built the way the code builds it (str, sorted, join,       *)
(* json.dumps).  sha256 is taken to be injective: the key is the text that *)
(* is hashed.                                                              *)
(*                                                                         *)
(* DataEntry is taken with the original_path attribute that pipeline.py,   *)
(* processing.py and trace.py write and read; models.py as it stands does  *)
(* not declare the column.  DeclSpec alone takes the class as declared.    *)
(***************************************************************************)
EXTENDS Integers, Sequences, FiniteSets, Bags, TLC

\* ------------------------------------------------------------------ bounds
MaxMTime == 2        \* distinct modification times a file can take
MaxEntries == 4      \* rows of data_entries
MaxRuns == 2         \* pipeline runs (PipelineRunner.execute calls)
MaxSteps == 3        \* steps executed, over all runs
MaxTagCmds == 1      \* tag commands
MaxKeyId == 1        \* key specification: ids are drawn from 1..MaxKeyId and 10
MaxLoads == 3        \* runs that only load

\* --------------------------------------------------------- program constants
HashLen == 8         \* hexdigest()[:8]

\* -------------------------------------------------------------------- text
\* The characters that occur, in code point order (Python compares str by
\* code point).
Ascii ==
  << " ", "\"", ",", ".", "0", "1", "2", "3", "4", "5", "6", "7", "8", "9",
     ":", "_", "a", "b", "c", "d", "e", "f", "g", "h", "i", "j", "k", "l",
     "m", "n", "o", "p", "q", "r", "s", "t", "u", "v", "w", "x", "y", "z",
     "{", "|", "}" >>

CharRank(c) == CHOOSE i \in 1..Len(Ascii) : Ascii[i] = c

Digits == << "0", "1", "2", "3", "4", "5", "6", "7", "8", "9" >>

\* str(n) for n >= 0
RECURSIVE Str(_)
Str(n) == IF n < 10 THEN << Digits[n + 1] >>
          ELSE Str(n \div 10) \o << Digits[(n % 10) + 1] >>

\* a < b for two str values
RECURSIVE StrLess(_, _)
StrLess(a, b) ==
  IF a = << >> THEN b # << >>
  ELSE IF b = << >> THEN FALSE
  ELSE IF Head(a) = Head(b) THEN StrLess(Tail(a), Tail(b))
  ELSE CharRank(Head(a)) < CharRank(Head(b))

\* sorted(xs) for a list of str
RECURSIVE InsertSorted(_, _)
InsertSorted(x, s) ==
  IF s = << >> THEN << x >>
  ELSE IF StrLess(x, Head(s)) THEN << x >> \o s
  ELSE << Head(s) >> \o InsertSorted(x, Tail(s))

RECURSIVE SortedStr(_)
SortedStr(xs) ==
  IF xs = << >> THEN << >>
  ELSE InsertSorted(xs[Len(xs)], SortedStr(SubSeq(xs, 1, Len(xs) - 1)))

\* sep.join(parts)
RECURSIVE Join(_, _)
Join(sep, parts) ==
  IF parts = << >> THEN << >>
  ELSE IF Len(parts) = 1 THEN parts[1]
  ELSE parts[1] \o sep \o Join(sep, Tail(parts))

MapStr(ids) == [i \in 1..Len(ids) |-> Str(ids[i])]

\* A params dict is an insertion-ordered list of <<key, value>> with distinct
\* str keys; a value is an int or a str.
IntVal(n) == [kind |-> "int", v |-> n]
StrVal(s) == [kind |-> "str", v |-> s]

JsonValue(val) ==
  IF val.kind = "int" THEN Str(val.v) ELSE << "\"" >> \o val.v \o << "\"" >>

RECURSIVE InsertItem(_, _)
InsertItem(x, s) ==
  IF s = << >> THEN << x >>
  ELSE IF StrLess(x[1], Head(s)[1]) THEN << x >> \o s
  ELSE << Head(s) >> \o InsertItem(x, Tail(s))

RECURSIVE SortItems(_)
SortItems(items) ==
  IF items = << >> THEN << >>
  ELSE InsertItem(items[Len(items)], SortItems(SubSeq(items, 1, Len(items) - 1)))

\* json.dumps(params, sort_keys=True)
JsonDumps(params) ==
  LET items == SortItems(params)
      parts == [i \in 1..Len(items) |->
                  << "\"" >> \o items[i][1] \o << "\"", ":", " " >>
                  \o JsonValue(items[i][2])]
  IN << "{" >> \o Join(<< ",", " " >>, parts) \o << "}" >>

\* A key whose input ids are joined in the order given
GenerateStepHashUnsorted(processor, func_hash, input_ids, params) ==
  Join(<< "|" >>, << processor, func_hash,
                     Join(<< "," >>, MapStr(input_ids)), JsonDumps(params) >>)

\* PipelineRunner._generate_step_hash, before sha256
GenerateStepHash(processor, func_hash, input_ids, params) ==
  LET components == << processor,
                       func_hash,
                       Join(<< "," >>, SortedStr(MapStr(input_ids))),
                       JsonDumps(params) >>
  IN Join(<< "|" >>, components)

\* ---------------------------------------------------------------- registry
CsvMultiplier ==
  << "c", "s", "v", "_", "m", "u", "l", "t", "i", "p", "l", "i", "e", "r" >>
TextMerge == << "t", "e", "x", "t", "_", "m", "e", "r", "g", "e" >>
NoSuchProcessor == << "n", "o", "s", "u", "c", "h" >>

\* hexdigest()[:8] of _calculate_hash
CalculateHash(hexdigest) == SubSeq(hexdigest, 1, HashLen)

\* The first characters of the sha256 hexdigest of the collected source of
\* multiply_csv_numbers and of merge_text_files
MultiplierDigest == << "4", "c", "4", "4", "5", "e", "2", "f", "b", "b" >>
MergeDigest == << "6", "3", "1", "1", "4", "d", "a", "1", "2", "0" >>

\* The functions that the processor modules define: __name__ and the
\* hexdigest of the collected source
MultiplyCsvNumbers ==
  [name |-> << "m", "u", "l", "t", "i", "p", "l", "y", "_", "c", "s", "v", "_",
               "n", "u", "m", "b", "e", "r", "s" >>,
   digest |-> MultiplierDigest]
MergeTextFiles ==
  [name |-> << "m", "e", "r", "g", "e", "_", "t", "e", "x", "t", "_",
               "f", "i", "l", "e", "s" >>,
   digest |-> MergeDigest]

\* register(name=None, ...): a name is given or not
NoName == [given |-> FALSE, value |-> << >>]
Name(v) == [given |-> TRUE, value |-> v]

DotCsv == << ".", "c", "s", "v" >>
DotTxt == << ".", "t", "x", "t" >>

\* `if not output_ext.startswith("."): output_ext = f".{output_ext}"`
NormalizeExt(output_ext) ==
  IF output_ext # << >> /\ Head(output_ext) = "." THEN output_ext
  ELSE << "." >> \o output_ext

\* A register that replaces the registration of a name already there
RegisterOverwrite(reg, name, input_type, output_ext, func) ==
  IF input_type \notin {"single", "multi"}
  THEN [outcome |-> "invalid_input_type", key |-> << >>, reg |-> reg]
  ELSE LET _name == IF name.given THEN name.value ELSE func.name
       IN [outcome |-> "ok", key |-> _name,
           reg |-> [n \in (DOMAIN reg) \cup {_name} |->
                      IF n = _name
                      THEN [func |-> func.name, input_type |-> input_type,
                            output_ext |-> NormalizeExt(output_ext),
                            hash |-> CalculateHash(func.digest)]
                      ELSE reg[n]]]

\* ProcessorRegistry.register(name, input_type, output_ext)(func) on the
\* registry reg: both outcomes other than "ok" are a ValueError, the first
\* raised before the decorator is made, the second by the decorator
Register(reg, name, input_type, output_ext, func) ==
  IF input_type \notin {"single", "multi"}
  THEN [outcome |-> "invalid_input_type", key |-> << >>, reg |-> reg]
  ELSE LET _name == IF name.given THEN name.value ELSE func.name
       IN IF _name \in DOMAIN reg
          THEN [outcome |-> "duplicate", key |-> _name, reg |-> reg]
          ELSE [outcome |-> "ok", key |-> _name,
                reg |-> [n \in (DOMAIN reg) \cup {_name} |->
                           IF n = _name
                           THEN [func |-> func.name, input_type |-> input_type,
                                 output_ext |-> NormalizeExt(output_ext),
                                 hash |-> CalculateHash(func.digest)]
                           ELSE reg[n]]]

\* ProcessorRegistry._processors after processes/__init__.py has imported the
\* processor modules: name -> func, input_type, output_ext, hash
\* (_calculate_hash of the registered source).
Registry ==
  Register(
    Register([n \in {} |-> 0], Name(CsvMultiplier), "single", DotCsv,
             MultiplyCsvNumbers).reg,
    Name(TextMerge), "multi", DotTxt, MergeTextFiles).reg

NoProcessor == [func |-> << >>, input_type |-> "none", output_ext |-> << >>,
                hash |-> << >>]

\* A get_processor that hands out a processor for every name
GetProcessorLenient(name) ==
  [found |-> TRUE,
   desc |-> IF name \in DOMAIN Registry THEN Registry[name] ELSE Registry[TextMerge]]

\* ProcessorRegistry.get_processor on the registry reg: found is FALSE where
\* it raises KeyError
GetProcessorIn(reg, name) ==
  IF name \in DOMAIN reg
  THEN [found |-> TRUE, desc |-> reg[name]]
  ELSE [found |-> FALSE, desc |-> NoProcessor]

\* get_processor once every processor module is imported
GetProcessor(name) == GetProcessorIn(Registry, name)

\* ------------------------------------------------------------------- files
\* The files on disk, in sorted order.
FilePaths == << "data/a.csv", "data/b.csv" >>
Files == {FilePaths[i] : i \in 1..Len(FilePaths)}
FileRank(f) == CHOOSE i \in 1..Len(FilePaths) : FilePaths[i] = f

\* sorted(all_included)
RECURSIVE SortedPaths(_)
SortedPaths(S) ==
  IF S = {} THEN << >>
  ELSE LET f == CHOOSE x \in S : \A y \in S : FileRank(x) <= FileRank(y)
       IN << f >> \o SortedPaths(S \ {f})

\* ------------------------------------------------------------------- state
VARIABLES
  data_entries,       \* table data_entries: row i is the DataEntry with id i
  data_relationship,  \* table data_relationship: set of (parent_id, child_id)
  tags,               \* table tags: the Tag rows' names, in insertion order
  file_mtime_cache,   \* table file_mtime_cache, in created_at order
  step_cache,         \* table step_cache, in created_at order
  exports_meta,       \* FileStorage._meta_cache: export name -> artifact id
  mtime,              \* the file system: path -> modification time
  context,            \* PipelineRunner.context: variable -> list of ids
  pc,                 \* "idle", "running" (inside execute), "aborted"
  last,               \* what the last operation was given and what it did
                      \* (returned: the processor function returned a value
                      \* of an accepted type)
  ingested,           \* history: path -> its mtime and id at its last ingestion
  completed,          \* history: (processor, ids, params) -> the output of the
                      \* last completed step with cache=true that had them,
                      \* and how many such steps completed
  nruns, nsteps, ntagcmds,  \* operations so far (bounded)
  key_a, key_b,       \* the key specification's two step declarations
  processors,         \* ProcessorRegistry._processors while modules register
  plan,               \* the `steps` argument of the execute in progress
  trace,              \* history: what each completed step of this execute
                      \* published, in order
  prev,               \* history: the execute before this one
  runners             \* two runner processes on one store: where each is
                      \* in its execute, and what it has seen

\* the variables of the registry and of the plan-driven runs
aux == << processors, plan, trace, prev, runners >>

vars == << data_entries, data_relationship, tags, file_mtime_cache, step_cache,
           exports_meta, mtime, context, pc, last, ingested, completed,
           nruns, nsteps, ntagcmds, key_a, key_b, aux >>

store == << data_entries, data_relationship, tags, file_mtime_cache, step_cache >>

\* The tables as one value, as the session sees them.
Store == [entries |-> data_entries, edges |-> data_relationship, tags |-> tags,
          file_cache |-> file_mtime_cache, step_cache |-> step_cache]

NoFile == "-"

\* ------------------------------------------------------------ tag helpers
\* session.query(Tag).filter_by(name=tag_name).first(); Tag(name=...) if none
FindOrAddTag(rows, name) ==
  IF \E i \in 1..Len(rows) : rows[i] = name THEN rows ELSE Append(rows, name)

\* entry.tags.append(tag) on an entry the session already holds (ingestion):
\* every append is followed by a query, which autoflushes it, and the unit of
\* work inserts a data_tag row only for a tag that is not in the collection
\* as last flushed.
AppendTagPersistent(bag, name) ==
  IF BagIn(name, bag) THEN bag ELSE bag (+) SetToBag({name})

\* entry.tags.append(tag) on an entry not yet added to the session
\* (DataProcessor.run): every appended element becomes a data_tag row when the
\* entry is committed; the table has no key.
AppendTagTransient(bag, name) == bag (+) SetToBag({name})

\* -------------------------------------------------------------- ingestion
\* A glob, a regular expression and an exclude pattern are represented by the
\* set of paths they match.
NoRegex == [given |-> FALSE, matches |-> {}]
Regex(S) == [given |-> TRUE, matches |-> S]

\* glob.glob(spec.path), filtered by spec.re_pattern when one is given
Matches(spec) ==
  IF spec.re_pattern.given
  THEN {m \in spec.path : m \in spec.re_pattern.matches}
  ELSE spec.path

RECURSIVE AllIncluded(_)
AllIncluded(specs) ==
  IF specs = << >> THEN {}
  ELSE Matches(Head(specs)) \cup AllIncluded(Tail(specs))

\* file_tags[file] after the include loop
RECURSIVE FileTags(_, _)
FileTags(specs, file) ==
  IF specs = << >> THEN << >>
  ELSE (IF file \in Matches(Head(specs)) THEN Head(specs).tags ELSE << >>)
       \o FileTags(Tail(specs), file)

\* Matched files from which nothing is excluded
MatchedFilesNoExclude(config) ==
  SortedPaths(AllIncluded(config.include_patterns))

MatchedFiles(config) ==
  LET all_included == AllIncluded(config.include_patterns)
      all_excluded ==
        {file \in all_included :
           \E i \in 1..Len(config.exclude_patterns) :
             file \in config.exclude_patterns[i]}
  IN SortedPaths(all_included \ all_excluded)

\* A lookup that takes the oldest row of the path
LookupFileCacheOldest(rows, file_path) ==
  LET hits == {i \in 1..Len(rows) : rows[i].file_path = file_path}
  IN IF hits = {} THEN 0 ELSE CHOOSE i \in hits : \A j \in hits : i <= j

\* .filter(file_path == f).order_by(created_at.desc()).first(): row index, 0 if none
LookupFileCache(rows, file_path) ==
  LET hits == {i \in 1..Len(rows) : rows[i].file_path = file_path}
  IN IF hits = {} THEN 0 ELSE CHOOSE i \in hits : \A j \in hits : j <= i

\* A reuse test that does not compare modification times
ReusableAnyMTime(rows, cache, current_mtime) == cache # 0

\* The test of the reuse branch of the loop over matched_files
Reusable(rows, cache, current_mtime) ==
  cache # 0 /\ rows[cache].last_mtime = current_mtime

RECURSIVE AttachTags(_, _, _)
AttachTags(st, id, names) ==
  IF names = << >> THEN st
  ELSE AttachTags(
         [st EXCEPT !.tags = FindOrAddTag(@, Head(names)),
                    !.entries[id].tags = AppendTagPersistent(@, Head(names))],
         id, Tail(names))

\* One iteration of the loop over matched_files: the store after it and the
\* id of the entry appended to `entries`.
LoadFile(st, config, specs_tags, file_path) ==
  LET current_mtime == mtime[file_path]
      cache == LookupFileCache(st.file_cache, file_path)
      reuse == Reusable(st.file_cache, cache, current_mtime)
      id == IF reuse THEN st.file_cache[cache].data_entry_id
            ELSE Len(st.entries) + 1
      entry == [type |-> config.data_type,
                original_path |-> file_path,
                \* "自动加载自: {file_path}"
                description |-> [text |-> "loaded", by |-> << >>, ids |-> << >>,
                                 params |-> << >>, notes |-> << >>],
                tags |-> EmptyBag]
      st1 == IF reuse THEN st
             ELSE [st EXCEPT
                     !.entries = Append(@, entry),
                     !.file_cache = Append(@, [file_path |-> file_path,
                                               data_entry_id |-> id,
                                               last_mtime |-> current_mtime])]
      st2 == AttachTags(st1, id, specs_tags \o << file_path >>)
      st3 == AttachTags(st2, id, config.tags)
  IN [st |-> st3, id |-> id]

RECURSIVE LoadFiles(_, _, _)
LoadFiles(st, config, files) ==
  IF files = << >> THEN [st |-> st, ids |-> << >>]
  ELSE LET one == LoadFile(st, config,
                           FileTags(config.include_patterns, Head(files)),
                           Head(files))
           rest == LoadFiles(one.st, config, Tail(files))
       IN [st |-> rest.st, ids |-> << one.id >> \o rest.ids]

\* An ingestion that goes on with no file
LoadInitialFilesUnchecked(st, config) ==
  LET r == LoadFiles(st, config, MatchedFiles(config))
  IN [outcome |-> "ok", st |-> r.st, ids |-> r.ids]

\* PipelineRunner._load_initial_files
LoadInitialFiles(st, config) ==
  LET matched_files == MatchedFiles(config)
  IN IF matched_files = << >>
     THEN [outcome |-> "no_match", st |-> st, ids |-> << >>]
     ELSE LET r == LoadFiles(st, config, matched_files)
          IN [outcome |-> "ok", st |-> r.st, ids |-> r.ids]

\* ----------------------------------------------------------- DataProcessor
\* What the processor function does when it is called: it raises, or it
\* returns None, a list of str (a str is a list of one), or a value of
\* another type.
FnRaise == [kind |-> "raise", value |-> << >>]
FnNone == [kind |-> "none", value |-> << >>]
FnList(ts) == [kind |-> "list", value |-> ts]
FnOther == [kind |-> "other", value |-> << >>]
\* it returns a list, and attaching one of its tags raises
FnTagFail == [kind |-> "tagfail", value |-> << "t" >>]

HasDuplicates(seq) == \E i, j \in 1..Len(seq) : i < j /\ seq[i] = seq[j]

RECURSIVE AddAutoTagRows(_, _)
AddAutoTagRows(rows, names) ==
  IF names = << >> THEN rows
  ELSE AddAutoTagRows(FindOrAddTag(rows, Head(names)), Tail(names))

RECURSIVE AddAutoTagBag(_, _)
AddAutoTagBag(bag, names) ==
  IF names = << >> THEN bag
  ELSE AddAutoTagBag(AppendTagTransient(bag, Head(names)), Tail(names))

\* An entry that the tags are not attached to
AutoTagsNone(names) == EmptyBag

\* entry.tags of the new entry once _add_auto_tags has gone through the tags
AutoTags(names) == AddAutoTagBag(EmptyBag, names)

\* Parents that keep the first input only
RunParentsFirst(input_type, input_ids) ==
  IF input_ids = << >> THEN << >> ELSE << input_ids[1] >>

\* The rows of the input artifacts that become `parents` of the new entry.
RunParents(input_type, input_ids) ==
  IF input_type = "single" THEN << input_ids[1] >> ELSE input_ids

\* An arity check that rejects the empty list only
ArityErrorEmptyOnly(input_type, input_ids) ==
  input_type = "single" /\ Len(input_ids) = 0

\* The arity check of DataProcessor.run: TRUE when run raises ValueError
\* before it loads any input.
ArityError(input_type, input_ids) ==
  input_type = "single" /\ Len(input_ids) # 1

\* Edges written the wrong way round
NewEdgesReversed(entries, id) ==
  {[parent_id |-> id, child_id |-> entries[i]] : i \in 1..Len(entries)}

\* The data_relationship rows of DataEntry(parents=entries) with the new id
NewEdges(entries, id) ==
  {[parent_id |-> entries[i], child_id |-> id] : i \in 1..Len(entries)}

\* DataProcessor.run(processor_name, input_ids, **params) on store st, with
\* the processor function behaving as fn.  outcome "ok" is the committed
\* entry; every other outcome is an exception, after which nothing of the
\* call is in the store.  invoked counts the calls of the processor function.
Run(st, processor_name, input_ids, params, fn) ==
  LET failed(o, n) == [outcome |-> o, invoked |-> n, st |-> st, id |-> 0]
  IN IF ~GetProcessor(processor_name).found
     THEN failed("unknown_processor", 0)
     ELSE LET processor == GetProcessor(processor_name).desc
              input_type == processor.input_type
          IN IF ArityError(input_type, input_ids) THEN failed("arity_error", 0)
             \* session.get gives None for an id that is no entry, and
             \* reading its path raises
             ELSE IF \E i \in 1..Len(input_ids) :
                        input_ids[i] \notin 1..Len(st.entries)
                  THEN failed("missing_input", 0)
             ELSE IF fn.kind = "raise" THEN failed("processor_error", 1)
             ELSE IF fn.kind = "other" THEN failed("bad_return", 1)
             \* _add_auto_tags raises: the entry was not added to the
             \* session and the Tag rows it flushed are never committed
             ELSE IF fn.kind = "tagfail" THEN failed("tag_error", 1)
             ELSE LET entries == RunParents(input_type, input_ids)
                      result_tags == fn.value
                      id == Len(st.entries) + 1
                      entry ==
                        [type |-> "processed",
                         original_path |-> NoFile,
                         \* "Processed by {name}, id: {ids}, params: {params}"
                         description |-> [text |-> "processed",
                                          by |-> processor_name,
                                          ids |-> input_ids,
                                          params |-> params,
                                          notes |-> << >>],
                         tags |-> AutoTags(result_tags)]
                  IN \* (parent_id, child_id) is the primary key of
                     \* data_relationship: the commit fails on a repeated parent
                     IF HasDuplicates(entries)
                     THEN failed("integrity_error", 1)
                     ELSE [outcome |-> "ok", invoked |-> 1, id |-> id,
                           st |-> [st EXCEPT
                             !.entries = Append(@, entry),
                             !.edges = @ \cup NewEdges(entries, id),
                             !.tags = AddAutoTagRows(@, result_tags)]]

\* ---------------------------------------------------------- PipelineRunner
Get(ctx, k) == IF k \in DOMAIN ctx THEN ctx[k] ELSE << >>
Bind(ctx, k, v) == [x \in (DOMAIN ctx) \cup {k} |-> IF x = k THEN v ELSE ctx[x]]

RECURSIVE ResolveList(_, _)
ResolveList(ctx, names) ==
  IF names = << >> THEN << >>
  ELSE Get(ctx, Head(names)) \o ResolveList(ctx, Tail(names))

\* PipelineRunner._resolve_inputs: inputs is a str or a list of str
ResolveInputs(ctx, inputs) ==
  IF inputs.kind = "str" THEN Get(ctx, inputs.names[1])
  ELSE ResolveList(ctx, inputs.names)

\* A lookup that takes the oldest row of the key
LookupStepCacheOldest(rows, step_hash) ==
  LET hits == {i \in 1..Len(rows) : rows[i].input_hash = step_hash}
  IN IF hits = {} THEN 0 ELSE CHOOSE i \in hits : \A j \in hits : i <= j

\* .filter(input_hash == h).order_by(created_at.desc()).first(): row index, 0 if none
LookupStepCache(rows, step_hash) ==
  LET hits == {i \in 1..Len(rows) : rows[i].input_hash = step_hash}
  IN IF hits = {} THEN 0 ELSE CHOOSE i \in hits : \A j \in hits : j <= i

\* The test of the cached branch of execute
\* A cache test that does not look at force_rerun
UseCachedIgnoringForce(cached, step) == cached # 0 /\ step.cache

\* A cache test that never reuses
UseCachedNever(cached, step) == FALSE

\* `if cached and not step.force_rerun and step.cache`
UseCached(cached, step) == cached # 0 /\ ~step.force_rerun /\ step.cache

\* PipelineRunner._log_step: the note is put in front of the description
LogStep(entries, step, output_id) ==
  [entries EXCEPT ![output_id].description.notes =
     << [processor |-> step.processor, inputs |-> step.inputs] >> \o @]

NoExport == "-"

\* FileStorage.create_export_file: the manifest entry is written before the copy
CreateExportFile(meta, name, file_id) == Bind(meta, name, file_id)

\* A cached branch that also logs the step on the reused artifact
CachedBranchLogging(seen, meta, ctx, step, output_id, copy_ok) ==
  [seen EXCEPT !.outcome = "cached",
               !.ctx = Bind(ctx, step.output_var, << output_id >>),
               !.out = output_id,
               !.st.entries = LogStep(@, step, output_id),
               !.meta = IF step.export = NoExport THEN meta
                        ELSE CreateExportFile(meta, step.export, output_id)]

\* A cached branch that leaves the context as it is
CachedBranchUnbound(seen, meta, ctx, step, output_id, copy_ok) ==
  [seen EXCEPT !.outcome = "cached",
               !.out = output_id,
               !.meta = IF step.export = NoExport THEN meta
                        ELSE CreateExportFile(meta, step.export, output_id)]

\* The cached branch of execute: the output variable is bound to the cached
\* output id, then the artifact's file is copied to the export path.
CachedBranch(seen, meta, ctx, step, output_id, copy_ok) ==
  LET bound == [seen EXCEPT !.ctx = Bind(ctx, step.output_var, << output_id >>),
                            !.out = output_id]
  IN IF step.export = NoExport
     THEN [bound EXCEPT !.outcome = "cached"]
     ELSE [bound EXCEPT
             !.outcome = IF copy_ok THEN "cached" ELSE "export_error",
             !.meta = CreateExportFile(meta, step.export, output_id)]

\* A loop body that binds the output variable to an entry that is not in
\* the store
RunBranchUncommitted(seen, st, meta, ctx, step, step_hash, resolved_ids, fn, copy_ok) ==
  LET r == Run(st, step.processor, resolved_ids, step.params, fn)
  IN IF r.outcome # "ok"
     THEN [seen EXCEPT !.outcome = r.outcome, !.invoked = r.invoked]
     ELSE [seen EXCEPT !.outcome = "executed", !.invoked = r.invoked,
                       !.out = r.id,
                       !.ctx = Bind(ctx, step.output_var, << r.id >>)]

\* The rest of the loop body: processor.run, the StepCache row, the export
\* copy, the binding of the output variable and _log_step, whose commit is
\* the one that makes the StepCache row durable.
RunBranch(seen, st, meta, ctx, step, step_hash, resolved_ids, fn, copy_ok) ==
  LET r == Run(st, step.processor, resolved_ids, step.params, fn)
  IN IF r.outcome # "ok"
     THEN [seen EXCEPT !.outcome = r.outcome, !.invoked = r.invoked]
     ELSE
       LET ran == [seen EXCEPT !.invoked = r.invoked, !.out = r.id, !.st = r.st]
           withrow == IF step.cache
                      THEN Append(r.st.step_cache,
                                  [input_hash |-> step_hash, output_id |-> r.id])
                      ELSE r.st.step_cache
       IN IF step.export # NoExport /\ ~copy_ok
          THEN \* the copy raises: the StepCache row is never committed
               [ran EXCEPT
                  !.outcome = "export_error",
                  !.meta = CreateExportFile(meta, step.export, r.id)]
          ELSE [ran EXCEPT
                  !.outcome = "executed",
                  !.meta = IF step.export = NoExport THEN meta
                           ELSE CreateExportFile(meta, step.export, r.id),
                  !.ctx = Bind(ctx, step.output_var, << r.id >>),
                  !.st = [r.st EXCEPT
                            !.step_cache = withrow,
                            !.entries = LogStep(@, step, r.id)]]

\* One iteration of the loop of execute over `steps`, for step, with the
\* processor function behaving as fn and the export copy succeeding or not.
\* Result: outcome, the store and the manifest as committed, the context,
\* and what was done on the way.  Every outcome but "cached" and "executed"
\* is an exception that leaves execute.
ExecuteStep(st, meta, ctx, step, fn, copy_ok) ==
  LET resolved_ids == ResolveInputs(ctx, step.inputs)
      base == [outcome |-> "unknown_processor", st |-> st, meta |-> meta,
               ctx |-> ctx, resolved_ids |-> resolved_ids, step_hash |-> << >>,
               looked_up |-> FALSE, cached |-> 0, invoked |-> 0, out |-> 0]
  IN IF ~GetProcessor(step.processor).found THEN base
     ELSE
       LET process_desc == GetProcessor(step.processor).desc
           step_hash == GenerateStepHash(step.processor, process_desc.hash,
                                         resolved_ids, step.params)
           cached == LookupStepCache(st.step_cache, step_hash)
           seen == [base EXCEPT !.step_hash = step_hash, !.looked_up = TRUE,
                                !.cached = cached]
       IN IF UseCached(cached, step)
          THEN CachedBranch(seen, meta, ctx, step,
                            st.step_cache[cached].output_id, copy_ok)
          ELSE RunBranch(seen, st, meta, ctx, step, step_hash, resolved_ids,
                         fn, copy_ok)

\* ------------------------------------------------------------ lineage tree
\* entry.parents, as loaded from data_relationship (in id order)
RECURSIVE SortedIds(_)
SortedIds(S) ==
  IF S = {} THEN << >>
  ELSE LET m == CHOOSE x \in S : \A y \in S : x <= y
       IN << m >> \o SortedIds(S \ {m})

Parents(edges, id) == SortedIds({e.parent_id : e \in {x \in edges : x.child_id = id}})

NoNode == [entry |-> 0, depth |-> 0, is_last |-> FALSE, children |-> << >>]

TraceDepth == 5      \* --depth default

MarkLast(children) ==
  IF children = << >> THEN children
  ELSE [children EXCEPT ![Len(children)].is_last = TRUE]

\* build_tree(entry, max_depth, current_depth): None is NoNode
RECURSIVE BuildTree(_, _, _, _)
BuildTree(edges, entry, max_depth, current_depth) ==
  IF current_depth >= max_depth THEN NoNode
  ELSE LET parents == Parents(edges, entry)
           built == [i \in 1..Len(parents) |->
                       BuildTree(edges, parents[i], max_depth, current_depth + 1)]
           children == SelectSeq(built, LAMBDA n : n # NoNode)
       IN [entry |-> entry, depth |-> current_depth, is_last |-> FALSE,
           children |-> MarkLast(children)]

\* ------------------------------------------------------------- tag command
RECURSIVE TagEntry(_, _, _)
TagEntry(st, data_id, names) ==
  IF names = << >> THEN st
  ELSE TagEntry(
         [st EXCEPT !.tags = FindOrAddTag(@, Head(names)),
                    !.entries[data_id].tags =
                       IF BagIn(Head(names), @) THEN @
                       ELSE @ (+) SetToBag({Head(names)})],
         data_id, Tail(names))

\* ------------------------------------------------------------ what is run
EmptyMap == [x \in {} |-> 0]
NoOp == [op |-> "none"]
NoRun == [outcome |-> "none"]
RunnerIds == {"A", "B"}
IdleRunner == [pc |-> "idle", step |-> NoOp, ctx |-> EmptyMap, seen |-> NoOp,
               raced |-> FALSE]
NoRunners == [of |-> [r \in RunnerIds |-> IdleRunner], overlap |-> FALSE]
NoDecl == [processor |-> << >>, func_hash |-> << >>, input_ids |-> << >>,
           params |-> << >>]

\* A load configuration of pipeline_commands.run
Config(include, exclude, type, global_tags) ==
  [include_patterns |-> include, exclude_patterns |-> exclude,
   data_type |-> type, tags |-> global_tags]
Include(path, re, spec_tags) ==
  [path |-> path, re_pattern |-> re, tags |-> spec_tags]

FileA == "data/a.csv"
FileB == "data/b.csv"

\* The load configurations tried: every file; every file, twice over with the
\* same tag as the global one; one file excluded; no match; another kind.
LoadConfigs ==
  { Config(<< Include(Files, NoRegex, << >>) >>, << >>, "raw", << >>),
    Config(<< Include(Files, NoRegex, << "t" >>),
              Include(Files, Regex({FileA}), << "t" >>) >>, << >>, "raw", << "t" >>),
    Config(<< Include(Files, NoRegex, << >>) >>, << {FileB} >>, "raw", << >>),
    Config(<< Include({}, NoRegex, << >>) >>, << >>, "raw", << >>),
    Config(<< Include(Files, NoRegex, << >>) >>, << >>, "processed", << >>) }

InputStr(v) == [kind |-> "str", names |-> << v >>]
InputList(vs) == [kind |-> "list", names |-> vs]

Multiplier == << "m", "u", "l", "t", "i", "p", "l", "i", "e", "r" >>
NoParams == << >>
Doubling == << << Multiplier, IntVal(2) >> >>

StepDecl(processor, inputs, params, cache, force_rerun, export) ==
  [processor |-> processor, inputs |-> inputs, params |-> params,
   output_var |-> "out", cache |-> cache, force_rerun |-> force_rerun,
   export |-> export]

\* The step declarations tried.
Steps ==
  { StepDecl(CsvMultiplier, InputStr("initial"), Doubling, TRUE, FALSE, "result"),
    StepDecl(CsvMultiplier, InputStr("initial"), Doubling, TRUE, TRUE, NoExport),
    StepDecl(CsvMultiplier, InputStr("out"), Doubling, FALSE, FALSE, NoExport),
    StepDecl(TextMerge, InputList(<< "initial", "out" >>), NoParams, TRUE, FALSE, NoExport),
    StepDecl(TextMerge, InputStr("out"), NoParams, TRUE, FALSE, NoExport),
    StepDecl(TextMerge, InputList(<< "out", "out" >>), NoParams, TRUE, FALSE, NoExport),
    StepDecl(NoSuchProcessor, InputStr("initial"), NoParams, TRUE, FALSE, NoExport) }

FnBehaviours == {FnRaise, FnNone, FnList(<< "t", "t" >>), FnOther}

\* ----------------------------------------------------------------- actions
Init ==
  /\ data_entries = << >>
  /\ data_relationship = {}
  /\ tags = << >>
  /\ file_mtime_cache = << >>
  /\ step_cache = << >>
  /\ exports_meta = EmptyMap
  /\ mtime = [f \in Files |-> 1]
  /\ context = EmptyMap
  /\ pc = "idle"
  /\ last = NoOp
  /\ ingested = EmptyMap
  /\ completed = EmptyMap
  /\ nruns = 0
  /\ nsteps = 0
  /\ ntagcmds = 0
  /\ key_a = NoDecl
  /\ key_b = NoDecl
  /\ processors = Registry
  /\ plan = << >>
  /\ trace = << >>
  /\ prev = NoRun
  /\ runners = NoRunners

SetStore(st) ==
  /\ data_entries' = st.entries
  /\ data_relationship' = st.edges
  /\ tags' = st.tags
  /\ file_mtime_cache' = st.file_cache
  /\ step_cache' = st.step_cache

\* The file is rewritten between two runs (a change of mtime is seen by the
\* next ingestion only).
Touch(f, t) ==
  /\ pc # "running"
  /\ nruns > 0 /\ nruns < MaxRuns
  /\ t # mtime[f]
  /\ mtime' = [mtime EXCEPT ![f] = t]
  /\ last' = NoOp
  /\ UNCHANGED << store, exports_meta, context, pc, ingested, completed,
                  nruns, nsteps, ntagcmds, key_a, key_b, aux >>

\* PipelineRunner(...).execute up to the loop over steps: a new runner, with
\* an empty context, loads the initial files.
StartRun(config) ==
  /\ pc # "running"
  /\ nruns < MaxRuns
  /\ \E r \in {LoadInitialFiles(Store, config)} :
     LET files == MatchedFiles(config)
     IN /\ Len(r.st.entries) <= MaxEntries
        /\ SetStore(r.st)
        /\ context' = IF r.outcome = "ok" THEN Bind(EmptyMap, "initial", r.ids)
                      ELSE EmptyMap
        /\ pc' = IF r.outcome = "ok" THEN "running" ELSE "aborted"
        /\ last' = [op |-> "load", outcome |-> r.outcome, files |-> files,
                    ids |-> r.ids, data_type |-> config.data_type]
        /\ ingested' =
             [f \in (DOMAIN ingested) \cup {files[i] : i \in 1..Len(files)} |->
                IF \E i \in 1..Len(files) : files[i] = f
                THEN LET i == CHOOSE i \in 1..Len(files) : files[i] = f
                     IN [mtime |-> mtime[f], id |-> r.ids[i]]
                ELSE ingested[f]]
  /\ nruns' = nruns + 1
  /\ UNCHANGED << exports_meta, mtime, completed, nsteps, ntagcmds, key_a, key_b, aux >>

\* A loop that goes on to the next step whatever the step did
NextPcContinue(outcome) == "running"

\* Where execute is after a step: an exception leaves the loop and execute
NextPc(outcome) ==
  IF outcome \in {"cached", "executed"} THEN "running" ELSE "aborted"

StepKey(step, resolved_ids) ==
  [processor |-> step.processor, ids |-> resolved_ids, params |-> step.params]

\* The next step of the run: one iteration of the loop of execute.  An
\* exception ends the run.
Step(step, fn, copy_ok) ==
  /\ pc = "running"
  /\ nsteps < MaxSteps
  /\ step.export = NoExport => copy_ok
  /\ \E r \in {ExecuteStep(Store, exports_meta, context, step, fn, copy_ok)} :
     LET done == r.outcome \in {"cached", "executed"}
         k == StepKey(step, r.resolved_ids)
     IN /\ Len(r.st.entries) <= MaxEntries
        /\ SetStore(r.st)
        /\ exports_meta' = r.meta
        /\ context' = r.ctx
        /\ pc' = NextPc(r.outcome)
        /\ last' = [op |-> "step", outcome |-> r.outcome, step |-> step,
                    resolved_ids |-> r.resolved_ids, step_hash |-> r.step_hash,
                    looked_up |-> r.looked_up, cached |-> r.cached,
                    invoked |-> r.invoked, out |-> r.out,
                    returned |-> r.invoked > 0 /\ fn.kind \in {"none", "list"}]
        /\ completed' =
             IF done /\ step.cache
             THEN [x \in (DOMAIN completed) \cup {k} |->
                     IF x = k
                     THEN [out |-> r.out,
                           count |-> IF k \in DOMAIN completed
                                     THEN completed[k].count + 1 ELSE 1]
                     ELSE completed[x]]
             ELSE completed
  /\ nsteps' = nsteps + 1
  /\ UNCHANGED << mtime, ingested, nruns, ntagcmds, key_a, key_b, aux >>

\* execute returns the context after the last step.
Finish ==
  /\ pc = "running"
  /\ pc' = "idle"
  /\ last' = NoOp
  /\ UNCHANGED << store, exports_meta, mtime, context, ingested, completed,
                  nruns, nsteps, ntagcmds, key_a, key_b, aux >>

\* tag_cmd(data_id, tags)
TagCmd(data_id, names) ==
  /\ pc # "running"
  /\ ntagcmds < MaxTagCmds
  /\ IF data_id \in 1..Len(data_entries)
     THEN SetStore(TagEntry(Store, data_id, names))
     ELSE UNCHANGED store
  /\ last' = [op |-> "tag", data_id |-> data_id, names |-> names]
  /\ ntagcmds' = ntagcmds + 1
  /\ UNCHANGED << exports_meta, mtime, context, pc, ingested, completed,
                  nruns, nsteps, key_a, key_b, aux >>

Next ==
  \/ \E f \in Files, t \in 1..MaxMTime : Touch(f, t)
  \/ \E config \in LoadConfigs : StartRun(config)
  \/ \E step \in Steps, fn \in FnBehaviours, copy_ok \in BOOLEAN :
       Step(step, fn, copy_ok)
  \/ Finish

Spec == Init /\ [][Next]_vars

\* -------------------------------------------- runs with tag commands between
\* The same runs, with tag_cmd between them.
TagArgs == { << "t" >>, << "t", "t" >>, << FileA, "t" >> }

NextTag ==
  \/ \E config \in LoadConfigs : StartRun(config)
  \/ \E step \in Steps, fn \in FnBehaviours, copy_ok \in BOOLEAN :
       Step(step, fn, copy_ok)
  \/ Finish
  \/ \E data_id \in 1..MaxEntries, names \in TagArgs : TagCmd(data_id, names)

TagSpec == Init /\ [][NextTag]_vars

\* ------------------------------------------------------ the step cache key
\* Two step declarations as the key sees them: processor name, the hash of
\* its registered implementation, the resolved input ids, the params.
KeyIds == (1..MaxKeyId) \cup {10}

KeyIdLists ==
  { << >> } \cup { << i >> : i \in KeyIds } \cup { << i, j >> : i, j \in KeyIds }

Offset == << "o", "f", "f", "s", "e", "t" >>

\* params as written in the pipeline file: a mapping with string keys whose
\* values are numbers or strings; a mapping is listed in the order written
KeyParams ==
  { NoParams,
    << << Multiplier, IntVal(2) >> >>,
    << << Multiplier, StrVal(<< "2" >>) >> >>,
    << << Multiplier, IntVal(3) >> >>,
    << << Multiplier, IntVal(2) >>, << Offset, IntVal(1) >> >>,
    << << Offset, IntVal(1) >>, << Multiplier, IntVal(2) >> >> }

KeyDecls ==
  [processor : {CsvMultiplier, TextMerge},
   func_hash : {CalculateHash(MultiplierDigest), CalculateHash(MergeDigest)},
   input_ids : KeyIdLists,
   params : KeyParams]

KeyOf(decl) ==
  GenerateStepHash(decl.processor, decl.func_hash, decl.input_ids, decl.params)

CachedDecl == [force_rerun |-> FALSE, cache |-> TRUE]

InitKey ==
  /\ data_entries = << >>
  /\ data_relationship = {}
  /\ tags = << >>
  /\ file_mtime_cache = << >>
  /\ step_cache = << >>
  /\ exports_meta = EmptyMap
  /\ mtime = [f \in Files |-> 1]
  /\ context = EmptyMap
  /\ pc = "idle"
  /\ last = NoOp
  /\ ingested = EmptyMap
  /\ completed = EmptyMap
  /\ nruns = 0
  /\ nsteps = 0
  /\ ntagcmds = 0
  /\ key_a \in KeyDecls
  /\ key_b \in KeyDecls
  /\ processors = Registry
  /\ plan = << >>
  /\ trace = << >>
  /\ prev = NoRun
  /\ runners = NoRunners

\* A step declared as key_a, with cache=true, has executed: its StepCache row
\* is there (only the step_cache table plays a part here).
KeyRunA ==
  /\ pc = "idle"
  /\ step_cache' = Append(step_cache, [input_hash |-> KeyOf(key_a), output_id |-> 1])
  /\ pc' = "first_done"
  /\ last' = [op |-> "key", step_hash |-> KeyOf(key_a), cached |-> 0, hit |-> FALSE]
  /\ UNCHANGED << data_entries, data_relationship, tags, file_mtime_cache,
                  exports_meta, mtime, context, ingested, completed,
                  nruns, nsteps, ntagcmds, key_a, key_b, aux >>

\* A step declared as key_b comes to the cache test of execute.
KeyRunB ==
  /\ pc = "first_done"
  /\ LET step_hash == KeyOf(key_b)
         cached == LookupStepCache(step_cache, step_hash)
     IN last' = [op |-> "key", step_hash |-> step_hash, cached |-> cached,
                 hit |-> UseCached(cached, CachedDecl)]
  /\ pc' = "second_done"
  /\ UNCHANGED << store, exports_meta, mtime, context, ingested, completed,
                  nruns, nsteps, ntagcmds, key_a, key_b, aux >>

NextKey == KeyRunA \/ KeyRunB

KeySpec == InitKey /\ [][NextKey]_vars

\* ------------------------------------------------- runs of whole pipelines
\* pipeline_commands.run with a pipeline file: the steps of a run are those
\* of its file, taken in the order declared.
StepDeclTo(output_var, processor, inputs, params, cache, force_rerun, export) ==
  [StepDecl(processor, inputs, params, cache, force_rerun, export)
     EXCEPT !.output_var = output_var]

OnlyFileA == Config(<< Include(Files, NoRegex, << >>) >>, << {FileB} >>, "raw", << >>)
EveryFile == Config(<< Include(Files, NoRegex, << >>) >>, << >>, "raw", << >>)

\* every file is included, with a tag, and every file is excluded
NoFiles == Config(<< Include(Files, NoRegex, << "t" >>) >>, << Files >>, "raw", << "t" >>)

PipeConfigs == {OnlyFileA, EveryFile, NoFiles}

\* The pipeline files tried: a chain whose third step names a processor that
\* is not registered; the same chain with the third step put right; a chain
\* whose first step is declared force_rerun and whose last step has nothing
\* to work on; a chain whose first step is declared cache=false.
BrokenChain ==
  << StepDeclTo("a", CsvMultiplier, InputStr("initial"), Doubling, TRUE, FALSE, NoExport),
     StepDeclTo("b", CsvMultiplier, InputStr("a"), Doubling, TRUE, FALSE, "result"),
     StepDeclTo("c", NoSuchProcessor, InputStr("b"), NoParams, TRUE, FALSE, NoExport) >>

FixedChain ==
  [BrokenChain EXCEPT ![3] =
     StepDeclTo("c", TextMerge, InputList(<< "a", "b" >>), NoParams, TRUE, FALSE, NoExport)]

ForcedChain ==
  << StepDeclTo("a", TextMerge, InputStr("initial"), NoParams, TRUE, TRUE, NoExport),
     StepDeclTo("b", TextMerge, InputList(<< "initial", "a" >>), NoParams, TRUE, FALSE, NoExport),
     StepDeclTo("c", CsvMultiplier, InputStr("unbound"), Doubling, TRUE, FALSE, NoExport) >>

UncachedChain ==
  [BrokenChain EXCEPT ![1].cache = FALSE]

Plans == {BrokenChain, FixedChain, ForcedChain, UncachedChain}

PipeFns == {FnRaise, FnNone, FnList(<< "t" >>), FnTagFail}

\* The run that has just ended, as the next run finds it
EndedRun ==
  IF plan = << >> THEN NoRun
  ELSE [outcome |-> pc, initial_load |-> plan.initial_load, steps |-> plan.steps,
        mtime |-> plan.mtime, trace |-> trace]

\* runner.execute(load_config, steps) up to the loop over steps
PipeStart(config, steps) ==
  /\ pc # "running"
  /\ nruns < MaxRuns
  /\ \E r \in {LoadInitialFiles(Store, config)} :
        /\ Len(r.st.entries) <= MaxEntries
        /\ SetStore(r.st)
        /\ context' = IF r.outcome = "ok" THEN Bind(EmptyMap, "initial", r.ids)
                      ELSE EmptyMap
        /\ pc' = IF r.outcome = "ok" THEN "running" ELSE "aborted"
        /\ last' = [op |-> "load", outcome |-> r.outcome,
                    files |-> MatchedFiles(config), ids |-> r.ids,
                    data_type |-> config.data_type]
  /\ plan' = [initial_load |-> config, steps |-> steps, mtime |-> mtime]
  /\ trace' = << >>
  /\ prev' = EndedRun
  /\ nruns' = nruns + 1
  /\ UNCHANGED << exports_meta, mtime, ingested, completed, nsteps, ntagcmds,
                  key_a, key_b, processors, runners >>

\* One iteration of `for step in steps`: the step is the one after those
\* that have completed.
PipeStep(fn, copy_ok) ==
  /\ pc = "running"
  /\ Len(trace) < Len(plan.steps)
  /\ LET index == Len(trace) + 1
         step == plan.steps[index]
     IN /\ step.export = NoExport => copy_ok
        /\ \E r \in {ExecuteStep(Store, exports_meta, context, step, fn, copy_ok)} :
             /\ Len(r.st.entries) <= MaxEntries
             /\ SetStore(r.st)
             /\ exports_meta' = r.meta
             /\ context' = r.ctx
             /\ pc' = NextPc(r.outcome)
             /\ last' = [op |-> "step", outcome |-> r.outcome, step |-> step,
                         index |-> index,
                         resolved_ids |-> r.resolved_ids, step_hash |-> r.step_hash,
                         looked_up |-> r.looked_up, cached |-> r.cached,
                         invoked |-> r.invoked, out |-> r.out,
                         result_tags |-> fn.value]
             /\ trace' = IF NextPc(r.outcome) = "running"
                         THEN Append(trace, [out |-> r.out, invoked |-> r.invoked])
                         ELSE trace
  /\ UNCHANGED << mtime, ingested, completed, nruns, nsteps, ntagcmds,
                  key_a, key_b, processors, plan, prev, runners >>

\* execute returns once the loop has gone through every step.
PipeFinish ==
  /\ pc = "running"
  /\ Len(trace) = Len(plan.steps)
  /\ pc' = "idle"
  /\ last' = NoOp
  /\ UNCHANGED << store, exports_meta, mtime, context, ingested, completed,
                  nruns, nsteps, ntagcmds, key_a, key_b, aux >>

NextPipe ==
  \/ \E f \in Files, t \in 1..MaxMTime : Touch(f, t)
  \/ \E config \in PipeConfigs, steps \in Plans : PipeStart(config, steps)
  \/ \E fn \in PipeFns, copy_ok \in BOOLEAN : PipeStep(fn, copy_ok)
  \/ PipeFinish

PipeSpec == Init /\ [][NextPipe]_vars

\* ------------------------------------------------ the process run command
\* process_commands.run(processor_name, input_ids, param): DataProcessor.run
\* on the ids parsed from the command line (one id, or several separated by
\* commas), then the Operation row of the history, a table that nothing here
\* reads and that is left out.
ProcessRun(processor_name, input_ids, fn) ==
  /\ pc # "running"
  /\ nsteps < MaxSteps
  /\ \E r \in {Run(Store, processor_name, input_ids, NoParams, fn)} :
        /\ Len(r.st.entries) <= MaxEntries
        /\ SetStore(r.st)
        /\ last' = [op |-> "process", outcome |-> r.outcome,
                    processor |-> processor_name, input_ids |-> input_ids,
                    invoked |-> r.invoked, out |-> r.id,
                    result_tags |-> fn.value]
  /\ nsteps' = nsteps + 1
  /\ UNCHANGED << exports_meta, mtime, context, pc, ingested, completed,
                  nruns, ntagcmds, key_a, key_b, aux >>

\* _parse_input_ids: the lists of ids that can be given, 9 being no entry
ProcessIds ==
  { << i >> : i \in {1, 2, 3, 9} } \cup { << 1, 2 >>, << 2, 1 >>, << 1, 1 >>, << 3, 9 >> }

ProcessFns == {FnRaise, FnOther, FnList(<< "t" >>), FnTagFail}

NextProc ==
  \/ \E config \in PipeConfigs : PipeStart(config, << >>)
  \/ PipeFinish
  \/ \E processor_name \in {CsvMultiplier, TextMerge, NoSuchProcessor},
        input_ids \in ProcessIds, fn \in ProcessFns :
       ProcessRun(processor_name, input_ids, fn)

ProcSpec == Init /\ [][NextProc]_vars

\* ------------------------------------------------- the processor registry
\* The registry as the processor modules are imported and as names are
\* looked up: it starts empty (`_processors = {}`), and grows by the
\* decorators that the imports run.
InitReg ==
  /\ data_entries = << >>
  /\ data_relationship = {}
  /\ tags = << >>
  /\ file_mtime_cache = << >>
  /\ step_cache = << >>
  /\ exports_meta = EmptyMap
  /\ mtime = [f \in Files |-> 1]
  /\ context = EmptyMap
  /\ pc = "idle"
  /\ last = NoOp
  /\ ingested = EmptyMap
  /\ completed = EmptyMap
  /\ nruns = 0
  /\ nsteps = 0
  /\ ntagcmds = 0
  /\ key_a = NoDecl
  /\ key_b = NoDecl
  /\ processors = EmptyMap
  /\ plan = << >>
  /\ trace = << >>
  /\ prev = NoRun
  /\ runners = NoRunners

RegisterProc(name, input_type, output_ext, func) ==
  /\ \E r \in {Register(processors, name, input_type, output_ext, func)} :
       /\ processors' = r.reg
       /\ last' = [op |-> "register", outcome |-> r.outcome, key |-> r.key,
                   name |-> name, input_type |-> input_type,
                   output_ext |-> output_ext, func |-> func]
  /\ UNCHANGED << store, exports_meta, mtime, context, pc, ingested, completed,
                  nruns, nsteps, ntagcmds, key_a, key_b, plan, trace, prev, runners >>

LookupProc(name) ==
  /\ last' = [op |-> "get", name |-> name,
              found |-> GetProcessorIn(processors, name).found,
              desc |-> GetProcessorIn(processors, name).desc]
  /\ UNCHANGED << store, exports_meta, mtime, context, pc, ingested, completed,
                  nruns, nsteps, ntagcmds, key_a, key_b, aux >>

\* A function of the same name as another, with another body
OtherMerge == [MergeTextFiles EXCEPT !.digest = MultiplierDigest]

RegNames == {NoName, Name(TextMerge)}
RegInputTypes == {"single", "multi", "batch"}
RegExts == {DotCsv, << "t", "x", "t" >>}
RegFuncs == {MultiplyCsvNumbers, MergeTextFiles, OtherMerge}

NextReg ==
  \/ \E name \in RegNames, input_type \in RegInputTypes, output_ext \in RegExts,
        func \in RegFuncs :
       RegisterProc(name, input_type, output_ext, func)
  \/ \E name \in {TextMerge, MergeTextFiles.name, NoSuchProcessor} :
       LookupProc(name)

RegSpec == InitReg /\ [][NextReg]_vars

\* ------------------------------------------------------ runs that only load
\* pipeline_commands.run with a pipeline file that declares no step: execute
\* loads the initial files, binds them and returns.
Ingest(config) ==
  /\ pc # "running"
  /\ nruns < MaxLoads
  /\ \E r \in {LoadInitialFiles(Store, config)} :
        /\ Len(r.st.entries) <= MaxEntries
        /\ SetStore(r.st)
        /\ context' = IF r.outcome = "ok" THEN Bind(EmptyMap, "initial", r.ids)
                      ELSE EmptyMap
        /\ pc' = IF r.outcome = "ok" THEN "idle" ELSE "aborted"
        /\ last' = [op |-> "load", outcome |-> r.outcome, config |-> config,
                    files |-> MatchedFiles(config), ids |-> r.ids,
                    data_type |-> config.data_type]
  /\ plan' = [initial_load |-> config, steps |-> << >>, mtime |-> mtime]
  /\ trace' = << >>
  /\ prev' = EndedRun
  /\ nruns' = nruns + 1
  /\ UNCHANGED << exports_meta, mtime, ingested, completed, nsteps, ntagcmds,
                  key_a, key_b, processors, runners >>

\* The file is rewritten between two of these runs.
Rewrite(f, t) ==
  /\ nruns > 0 /\ nruns < MaxLoads
  /\ t # mtime[f]
  /\ mtime' = [mtime EXCEPT ![f] = t]
  /\ last' = NoOp
  /\ UNCHANGED << store, exports_meta, context, pc, ingested, completed,
                  nruns, nsteps, ntagcmds, key_a, key_b, aux >>

\* The load configurations tried: every file; one file excluded; a file
\* matched by two include specs, the second file first; a glob refined by a
\* regex; everything excluded.
IngestConfigs ==
  { EveryFile, OnlyFileA,
    Config(<< Include({FileB}, NoRegex, << >>), Include(Files, NoRegex, << "t" >>) >>,
           << >>, "raw", << >>),
    Config(<< Include(Files, Regex({FileB}), << >>) >>, << >>, "raw", << >>),
    NoFiles }

NextIngest ==
  \/ \E config \in IngestConfigs : Ingest(config)
  \/ \E f \in Files, t \in 1..MaxMTime : Rewrite(f, t)

IngestSpec == Init /\ [][NextIngest]_vars

\* --------------------------------------------- steps that differ in input order
\* A pipeline file whose last two steps merge the same artifacts, taken in
\* two different orders
OrderChain ==
  << StepDeclTo("a", TextMerge, InputStr("initial"), NoParams, TRUE, FALSE, NoExport),
     StepDeclTo("b", TextMerge, InputList(<< "initial", "a" >>), NoParams, TRUE, FALSE, NoExport),
     StepDeclTo("c", TextMerge, InputList(<< "a", "initial" >>), NoParams, TRUE, FALSE, NoExport) >>

NextOrder ==
  \/ \E f \in Files, t \in 1..MaxMTime : Touch(f, t)
  \/ \E config \in {OnlyFileA, EveryFile}, steps \in {OrderChain, FixedChain} :
       PipeStart(config, steps)
  \/ \E fn \in PipeFns : PipeStep(fn, TRUE)
  \/ PipeFinish

OrderSpec == Init /\ [][NextOrder]_vars

\* ------------------------------------------------- two runners on one store
\* Two processes run `pipeline run` on the same experiment.  Each execute is
\* a pipeline of one step; what a runner does between two accesses to the
\* store is one action, so that the other runner can come in between the
\* query of StepCache and the insert.
MaxRaceRuns == 3     \* executes started by the two runners together

RaceSteps ==
  { StepDeclTo("a", CsvMultiplier, InputStr("initial"), Doubling, TRUE, FALSE, NoExport),
    StepDeclTo("a", CsvMultiplier, InputStr("initial"), Doubling, TRUE, FALSE, "result") }

Midway(r) == runners.of[r].pc \in {"loaded", "missed"}

\* execute up to the loop: ingestion, committed, and the binding of `initial`
RaceStart(r, step) ==
  /\ ~Midway(r)
  /\ nruns < MaxRaceRuns
  /\ \E l \in {LoadInitialFiles(Store, OnlyFileA)} :
       /\ Len(l.st.entries) <= MaxEntries
       /\ SetStore(l.st)
       /\ runners' = [of |-> [runners.of EXCEPT ![r] =
                                [pc |-> "loaded", step |-> step,
                                 ctx |-> Bind(EmptyMap, "initial", l.ids),
                                 seen |-> NoOp, raced |-> FALSE]],
                      overlap |-> runners.overlap
                                    \/ \E o \in RunnerIds \ {r} : Midway(o)]
       /\ last' = [op |-> "race_start", runner |-> r]
  /\ nruns' = nruns + 1
  /\ UNCHANGED << exports_meta, mtime, context, pc, ingested, completed, nsteps,
                  ntagcmds, key_a, key_b, processors, plan, trace, prev >>

\* The loop body up to the decision on the cached row; a hit is bound and
\* ends the execute
RaceLookup(r) ==
  /\ runners.of[r].pc = "loaded"
  /\ LET me == runners.of[r]
         resolved_ids == ResolveInputs(me.ctx, me.step.inputs)
         process_desc == GetProcessor(me.step.processor).desc
         step_hash == GenerateStepHash(me.step.processor, process_desc.hash,
                                       resolved_ids, me.step.params)
         cached == LookupStepCache(step_cache, step_hash)
         seen == [outcome |-> "missed", st |-> Store, meta |-> exports_meta,
                  ctx |-> me.ctx, resolved_ids |-> resolved_ids,
                  step_hash |-> step_hash, looked_up |-> TRUE, cached |-> cached,
                  invoked |-> 0, out |-> 0]
         hit == IF UseCached(cached, me.step)
                THEN CachedBranch(seen, exports_meta, me.ctx, me.step,
                                  step_cache[cached].output_id, TRUE)
                ELSE seen
         raced == \E o \in RunnerIds \ {r} :
                    /\ runners.of[o].pc = "missed"
                    /\ runners.of[o].seen.step_hash = step_hash
     IN /\ runners' = [runners EXCEPT
                         !.of[r].pc = IF hit.outcome = "cached" THEN "done" ELSE "missed",
                         !.of[r].ctx = hit.ctx,
                         !.of[r].seen = [hit EXCEPT !.st = NoOp],
                         !.of[r].raced = raced]
        /\ exports_meta' = hit.meta
        /\ last' = [op |-> "race_lookup", runner |-> r, outcome |-> hit.outcome]
  /\ UNCHANGED << store, mtime, context, pc, ingested, completed, nruns, nsteps,
                  ntagcmds, key_a, key_b, processors, plan, trace, prev >>

\* The rest of the loop body after a miss, on the store as it is by now
RaceRun(r, copy_ok) ==
  /\ runners.of[r].pc = "missed"
  /\ LET me == runners.of[r]
     IN /\ me.step.export = NoExport => copy_ok
        /\ \E d \in {RunBranch([me.seen EXCEPT !.st = Store], Store, exports_meta,
                               me.ctx, me.step, me.seen.step_hash,
                               me.seen.resolved_ids, FnNone, copy_ok)} :
             /\ Len(d.st.entries) <= MaxEntries
             /\ SetStore(d.st)
             /\ exports_meta' = d.meta
             /\ runners' = [runners EXCEPT
                              !.of[r].pc = IF d.outcome = "executed" THEN "done"
                                           ELSE "failed",
                              !.of[r].ctx = d.ctx,
                              !.of[r].seen = [d EXCEPT !.st = NoOp]]
             /\ last' = [op |-> "race_run", runner |-> r, outcome |-> d.outcome]
  /\ UNCHANGED << mtime, context, pc, ingested, completed, nruns, nsteps,
                  ntagcmds, key_a, key_b, processors, plan, trace, prev >>

NextRace ==
  \/ \E r \in RunnerIds, step \in RaceSteps : RaceStart(r, step)
  \/ \E r \in RunnerIds : RaceLookup(r)
  \/ \E r \in RunnerIds, copy_ok \in BOOLEAN : RaceRun(r, copy_ok)

RaceSpec == Init /\ [][NextRace]_vars

\* ------------------------------------------------- ingestion that may stop
\* The loop of _load_initial_files over the matched files when
\* store_raw_data cannot copy the files in `unreadable`: the files copied
\* into raw storage so far, and whether the loop was left by the exception.
RECURSIVE LoadFilesUntil(_, _, _, _)
LoadFilesUntil(st, config, files, unreadable) ==
  IF files = << >> THEN [st |-> st, ids |-> << >>, copied |-> << >>, raised |-> FALSE]
  ELSE LET file_path == Head(files)
           one == LoadFile(st, config, FileTags(config.include_patterns, file_path),
                           file_path)
           stored == Len(one.st.entries) > Len(st.entries)
       IN IF stored /\ file_path \in unreadable
          THEN [st |-> st, ids |-> << >>, copied |-> << >>, raised |-> TRUE]
          ELSE LET rest == LoadFilesUntil(one.st, config, Tail(files), unreadable)
               IN [st |-> rest.st, ids |-> << one.id >> \o rest.ids,
                   copied |-> (IF stored THEN << file_path >> ELSE << >>) \o rest.copied,
                   raised |-> rest.raised]

\* _load_initial_files, left by the exception or by its one commit; the
\* session is closed without a commit when the exception leaves execute
LoadInitialFilesUntil(st, config, unreadable) ==
  LET matched_files == MatchedFiles(config)
  IN IF matched_files = << >>
     THEN [outcome |-> "no_match", st |-> st, ids |-> << >>, copied |-> << >>]
     ELSE LET r == LoadFilesUntil(st, config, matched_files, unreadable)
          IN IF r.raised
             THEN [outcome |-> "copy_error", st |-> st, ids |-> << >>,
                   copied |-> r.copied]
             ELSE [outcome |-> "ok", st |-> r.st, ids |-> r.ids, copied |-> r.copied]

\* A run with no step, on files of which some cannot be copied
IngestUntil(config, unreadable) ==
  /\ pc # "running"
  /\ nruns < MaxLoads
  /\ \E r \in {LoadInitialFilesUntil(Store, config, unreadable)} :
        /\ Len(r.st.entries) <= MaxEntries
        /\ SetStore(r.st)
        /\ context' = IF r.outcome = "ok" THEN Bind(EmptyMap, "initial", r.ids)
                      ELSE EmptyMap
        /\ pc' = IF r.outcome = "ok" THEN "idle" ELSE "aborted"
        /\ last' = [op |-> "load", outcome |-> r.outcome, config |-> config,
                    files |-> MatchedFiles(config), ids |-> r.ids,
                    data_type |-> config.data_type, copied |-> r.copied,
                    unreadable |-> unreadable]
  /\ plan' = [initial_load |-> config, steps |-> << >>, mtime |-> mtime]
  /\ trace' = << >>
  /\ prev' = EndedRun
  /\ nruns' = nruns + 1
  /\ UNCHANGED << exports_meta, mtime, ingested, completed, nsteps, ntagcmds,
                  key_a, key_b, processors, runners >>

NextCommit ==
  \/ \E config \in IngestConfigs, unreadable \in SUBSET Files :
       IngestUntil(config, unreadable)
  \/ \E f \in Files, t \in 1..MaxMTime : Rewrite(f, t)

CommitSpec == Init /\ [][NextCommit]_vars

\* ------------------------------------------ ingestion with DataEntry as declared
\* The attributes class DataEntry declares (its columns and relationships)
DataEntryColumns ==
  {"id", "type", "path", "timestamp", "description", "parents", "tags", "operations"}

\* The keywords with which _load_initial_files constructs a DataEntry
LoadKeywords == {"type", "path", "original_path", "description", "tags"}

\* The constructor of a declarative class takes the keywords that name an
\* attribute of the class, and raises TypeError for any other.
ConstructorAccepts(columns, keywords) == keywords \subseteq columns

\* _load_initial_files with the class as models.py declares it: the
\* exception leaves the loop at the first file that is not reused
LoadInitialFilesDeclared(st, config) ==
  LET rejected == IF ConstructorAccepts(DataEntryColumns, LoadKeywords)
                  THEN {} ELSE Files
      r == LoadInitialFilesUntil(st, config, rejected)
  IN [outcome |-> IF r.outcome = "copy_error" THEN "type_error" ELSE r.outcome,
      st |-> r.st, ids |-> r.ids]

IngestDeclared(config) ==
  /\ pc # "running"
  /\ nruns < MaxLoads
  /\ \E r \in {LoadInitialFilesDeclared(Store, config)} :
        /\ Len(r.st.entries) <= MaxEntries
        /\ SetStore(r.st)
        /\ context' = IF r.outcome = "ok" THEN Bind(EmptyMap, "initial", r.ids)
                      ELSE EmptyMap
        /\ pc' = IF r.outcome = "ok" THEN "idle" ELSE "aborted"
        /\ last' = [op |-> "load", outcome |-> r.outcome, config |-> config,
                    files |-> MatchedFiles(config), ids |-> r.ids,
                    data_type |-> config.data_type]
  /\ plan' = [initial_load |-> config, steps |-> << >>, mtime |-> mtime]
  /\ trace' = << >>
  /\ prev' = EndedRun
  /\ nruns' = nruns + 1
  /\ UNCHANGED << exports_meta, mtime, ingested, completed, nsteps, ntagcmds,
                  key_a, key_b, processors, runners >>

NextDecl ==
  \/ \E config \in IngestConfigs : IngestDeclared(config)
  \/ \E f \in Files, t \in 1..MaxMTime : Rewrite(f, t)

DeclSpec == Init /\ [][NextDecl]_vars

\* ------------------------------------------------------------ trace command
\* The lineage command on the store a pipeline has filled.
MaxTraceDepth == 3   \* the --depth values tried are 0..MaxTraceDepth and the default

BuildTreeOneDeeper(edges, id, depth) == BuildTree(edges, id, depth + 1, 0)

\* build_tree(entry, max_depth=depth), as trace_cmd calls it
TraceTree(edges, id, depth) == BuildTree(edges, id, depth, 0)

\* pathlib.Path: absolute or not, and the parts below the root or the
\* working directory
PathOf(abs, parts) == [abs |-> abs, parts |-> parts]

Cwd == << "work" >>

BasePath == PathOf(TRUE, << "experiment" >>)

\* Path(entry.original_path) of a file that glob.glob has matched
FileParts == << << "data", "a.csv" >>, << "data", "b.csv" >> >>

OriginalPath(file_path) == PathOf(FALSE, FileParts[FileRank(file_path)])

\* Path.resolve()
Resolve(p) == IF p.abs THEN p ELSE PathOf(TRUE, Cwd \o p.parts)

\* os.path.commonpath of absolute paths; Path() for no path
CommonPath(paths) ==
  IF paths = {} THEN PathOf(FALSE, << >>)
  ELSE LET one == CHOOSE p \in paths : TRUE
           shared == {n \in 0..Len(one.parts) :
                        \A p \in paths : /\ n <= Len(p.parts)
                                         /\ SubSeq(p.parts, 1, n) = SubSeq(one.parts, 1, n)}
           n == CHOOSE x \in shared : \A y \in shared : y <= x
       IN PathOf(TRUE, SubSeq(one.parts, 1, n))

NoPath == PathOf(FALSE, << "?" >>)

\* Path.relative_to: NoPath stands for ValueError
RelativeTo(p, prefix) ==
  IF /\ p.abs = prefix.abs
     /\ Len(prefix.parts) <= Len(p.parts)
     /\ SubSeq(p.parts, 1, Len(prefix.parts)) = prefix.parts
  THEN PathOf(FALSE, SubSeq(p.parts, Len(prefix.parts) + 1, Len(p.parts)))
  ELSE NoPath

\* The raw nodes of a tree in the order a recursive walk meets them
RECURSIVE RawNodes(_, _)
RawNodes(entries, node) ==
  LET own == IF entries[node.entry].type = "raw" THEN << node.entry >> ELSE << >>
      RECURSIVE Below(_)
      Below(k) == IF k > Len(node.children) THEN << >>
                  ELSE RawNodes(entries, node.children[k]) \o Below(k + 1)
  IN own \o Below(1)

CalculateCommonPrefix(entries, root) ==
  LET raw == RawNodes(entries, root)
  IN CommonPath({Resolve(OriginalPath(entries[raw[i]].original_path)) :
                   i \in 1..Len(raw)})

\* export_raw_data: for each raw node, the copy made or the warning given.
\* shutil.copy2 to a destination that is a directory copies under the
\* file's own name.
ExportRawData(entries, root, export_path, common_prefix, missing) ==
  LET raw == RawNodes(entries, root)
      One(id) ==
        LET original_path == OriginalPath(entries[id].original_path)
            relative_path == RelativeTo(original_path, common_prefix)
            below == IF relative_path.parts = << >>
                     THEN << original_path.parts[Len(original_path.parts)] >>
                     ELSE relative_path.parts
        IN IF relative_path = NoPath
           THEN [entry |-> id, outcome |-> "outside_prefix", dest |-> NoPath]
           ELSE IF entries[id].original_path \in missing
           THEN [entry |-> id, outcome |-> "source_missing", dest |-> NoPath]
           ELSE [entry |-> id, outcome |-> "exported",
                 dest |-> PathOf(TRUE, export_path.parts \o below)]
  IN [i \in 1..Len(raw) |-> One(raw[i])]

NoExportDir == PathOf(FALSE, << >>)

ExportDirs == {NoExportDir, PathOf(TRUE, << "out" >>), PathOf(FALSE, << "out" >>)}

\* trace_cmd(id, depth, export_dir); `missing` are the source files that
\* have been removed since they were ingested
TraceCmd(id, depth, export_dir, missing) ==
  /\ pc # "running"
  /\ LET found == id \in 1..Len(data_entries)
         root == IF found THEN TraceTree(data_relationship, id, depth) ELSE NoNode
         exporting == root # NoNode /\ export_dir # NoExportDir
         export_path == IF export_dir.abs THEN export_dir
                        ELSE PathOf(TRUE, BasePath.parts \o << "trace" >> \o export_dir.parts)
         common_prefix == IF exporting THEN CalculateCommonPrefix(data_entries, root)
                          ELSE NoPath
     IN last' = [op |-> "trace", id |-> id, depth |-> depth, found |-> found,
                 root |-> root, exporting |-> exporting, missing |-> missing,
                 export_path |-> export_path, common_prefix |-> common_prefix,
                 exports |-> IF exporting
                             THEN ExportRawData(data_entries, root, export_path,
                                                common_prefix, missing)
                             ELSE << >>]
  /\ UNCHANGED << store, exports_meta, mtime, context, pc, ingested, completed,
                  nruns, nsteps, ntagcmds, key_a, key_b, aux >>

TraceDepths == (0..MaxTraceDepth) \cup {TraceDepth}

NextTrace ==
  \/ \E config \in {OnlyFileA, EveryFile}, steps \in {FixedChain, ForcedChain} :
       PipeStart(config, steps)
  \/ PipeStep(FnNone, TRUE)
  \/ PipeFinish
  \/ \E id \in 1..(MaxEntries + 1), depth \in TraceDepths,
        export_dir \in ExportDirs, missing \in SUBSET Files :
       TraceCmd(id, depth, export_dir, missing)

TraceSpec == Init /\ [][NextTrace]_vars

\* ============================================================== properties
Range(seq) == {seq[i] : i \in 1..Len(seq)}

\* the position of the most recent StepCache row under a key, 0 if none
LatestRow(rows, key) ==
  LET hits == {i \in 1..Len(rows) : rows[i].input_hash = key}
  IN IF hits = {} THEN 0 ELSE CHOOSE i \in hits : \A j \in hits : j <= i

\* the transition is a step for which DataProcessor.run was called
RunCalled ==
  /\ last'.op = "step"
  /\ last'.looked_up
  /\ (last'.cached = 0 \/ last'.step.force_rerun \/ ~last'.step.cache)

\* C1: a step with cache=true that has the processor, the resolved input ids
\* and the params of a step that completed before publishes that step's
\* output id and calls no processor function; with force_rerun=true it calls
\* the processor function and, when it completes, publishes a new artifact id.
C1_IdempotentCaching ==
  [][ (/\ last'.op = "step"
       /\ last'.step.cache
       /\ StepKey(last'.step, last'.resolved_ids) \in DOMAIN completed)
      => LET first == completed[StepKey(last'.step, last'.resolved_ids)].out
             output_var == last'.step.output_var
         IN IF ~last'.step.force_rerun
            THEN /\ last'.invoked = 0
                 /\ last'.out = first
                 /\ context'[output_var] = << first >>
                 /\ data_entries' = data_entries
            ELSE /\ last'.invoked = 1
                 /\ last'.outcome = "executed" =>
                      /\ last'.out # first
                      /\ last'.out \notin 1..Len(data_entries)
                      /\ last'.out \in 1..Len(data_entries')
                      /\ context'[output_var] = << last'.out >>
    ]_vars

\* C1 witness: the third completed step of one key was forced and executed.
C1_Witness ==
  /\ last.op = "step"
  /\ last.step.cache /\ last.step.force_rerun
  /\ last.outcome = "executed"
  /\ completed[StepKey(last.step, last.resolved_ids)].count = 3
  /\ Len(step_cache) = 2

\* C2: a step whose key has a StepCache row, with force_rerun false and cache
\* true, leaves every table unchanged and calls no processor function; it
\* binds the output variable to the output id of the most recent row and, if
\* an export is configured, records the export; it does nothing else.
C2_CacheHitFrame ==
  [][ (/\ last'.op = "step"
       /\ LatestRow(step_cache, last'.step_hash) # 0
       /\ ~last'.step.force_rerun
       /\ last'.step.cache)
      => LET output_id == step_cache[LatestRow(step_cache, last'.step_hash)].output_id
         IN /\ store' = store
            /\ last'.invoked = 0
            /\ context' = Bind(context, last'.step.output_var, << output_id >>)
            /\ exports_meta' =
                 IF last'.step.export = NoExport THEN exports_meta
                 ELSE Bind(exports_meta, last'.step.export, output_id)
    ]_vars

\* C2 witness: a cache hit with an export has happened.
C2_Witness ==
  /\ last.op = "step"
  /\ last.outcome = "cached"
  /\ last.step.export # NoExport
  /\ exports_meta[last.step.export] = last.out
  /\ context[last.step.output_var] = << last.out >>

\* the input ids as a multiset, the params as a mapping
IdBag(ids) == [x \in Range(ids) |-> Cardinality({i \in 1..Len(ids) : ids[i] = x})]
ParamMap(params) == {<< params[i][1], params[i][2] >> : i \in 1..Len(params)}

SameComponents(a, b) ==
  /\ a.processor = b.processor
  /\ a.func_hash = b.func_hash
  /\ IdBag(a.input_ids) = IdBag(b.input_ids)
  /\ ParamMap(a.params) = ParamMap(b.params)

\* C3: two step declarations have the same cache key if and only if they
\* have the same processor name, the same implementation hash, the same
\* input ids up to order and the same params up to the order of the keys;
\* and the second finds the first one's StepCache row (and so is not
\* executed afresh) exactly then.
C3_KeySensitivity ==
  /\ KeyOf(key_a) = KeyOf(key_b) <=> SameComponents(key_a, key_b)
  /\ pc = "second_done" => (last.hit <=> SameComponents(key_a, key_b))

\* C3 witness: a hit between declarations that list the ids and the params
\* in different orders.
C3_Witness ==
  /\ pc = "second_done"
  /\ last.hit
  /\ key_a.input_ids # key_b.input_ids
  /\ key_a.params # key_b.params

\* the positions of the matched files whose mtime differs from the one at
\* their previous ingestion
Changed(files) == {i \in 1..Len(files) : ingested[files[i]].mtime # mtime[files[i]]}

\* C4: an ingestion of files that were all ingested before returns, when no
\* file's mtime has changed since, the ids of the previous ingestion and adds
\* no entry and no FileMTimeCache row; when exactly one file's mtime has
\* changed, that file gets a new id (one new entry, one new FileMTimeCache
\* row) and every other file keeps its id.
C4_IncrementalIngestion ==
  [][ (/\ last'.op = "load"
       /\ last'.outcome = "ok"
       /\ Range(last'.files) \subseteq DOMAIN ingested)
      => LET files == last'.files
             ids == last'.ids
             changed == Changed(files)
         IN /\ changed = {} =>
                 /\ ids = [i \in 1..Len(files) |-> ingested[files[i]].id]
                 /\ Len(data_entries') = Len(data_entries)
                 /\ file_mtime_cache' = file_mtime_cache
            /\ Cardinality(changed) = 1 =>
                 /\ Len(data_entries') = Len(data_entries) + 1
                 /\ Len(file_mtime_cache') = Len(file_mtime_cache) + 1
                 /\ \A i \in 1..Len(files) :
                      IF i \in changed
                      THEN /\ ids[i] = Len(data_entries')
                           /\ ids[i] # ingested[files[i]].id
                           /\ data_entries'[ids[i]].original_path = files[i]
                      ELSE ids[i] = ingested[files[i]].id
    ]_vars

\* C4 witness: two files were ingested again after one of them was touched.
C4_Witness ==
  /\ last.op = "load"
  /\ Len(last.ids) = 2
  /\ Len(file_mtime_cache) = 3
  /\ \E i, j \in 1..2 : last.ids[i] = 3 /\ last.ids[j] < 3
  /\ nruns = 2

\* C5: DataProcessor.run with a single-arity processor fails with the arity
\* error, without calling the processor function and without creating an
\* entry, when it is given no id or more than one; given exactly one id it
\* passes the arity check, and creates exactly one entry, of type processed,
\* whenever the processor function returns.
C5_SingleArity ==
  [][ (/\ RunCalled
       /\ Registry[last'.step.processor].input_type = "single")
      => IF Len(last'.resolved_ids) # 1
         THEN /\ last'.outcome = "arity_error"
              /\ last'.invoked = 0
              /\ data_entries' = data_entries
              /\ data_relationship' = data_relationship
         ELSE /\ last'.outcome # "arity_error"
              /\ last'.invoked = 1
              /\ IF last'.returned
                 THEN /\ Len(data_entries') = Len(data_entries) + 1
                      /\ data_entries'[Len(data_entries')].type = "processed"
                      /\ last'.out = Len(data_entries')
                 ELSE data_entries' = data_entries
    ]_vars

\* C5 witness: a single-arity processor was given two ids and was refused,
\* after it had run on one id.
C5_Witness ==
  /\ last.op = "step"
  /\ last.outcome = "arity_error"
  /\ Len(last.resolved_ids) = 2
  /\ \E id \in 1..Len(data_entries) :
       /\ data_entries[id].description.text = "processed"
       /\ data_entries[id].description.by = CsvMultiplier
       /\ Len(data_entries[id].description.ids) = 1

\* the entries created by DataProcessor.run
Processed == {id \in 1..Len(data_entries) : data_entries[id].description.text = "processed"}
\* the entries created by ingestion
Loaded == {id \in 1..Len(data_entries) : data_entries[id].description.text = "loaded"}

ParentEdges(id) == {e \in data_relationship : e.child_id = id}

\* C6: DataProcessor.run with a multi-arity processor and no input id fails
\* with the arity error, the processor function is not called, and no entry
\* is ever created by a run that was given no input id.
C6_MultiRejectsEmpty ==
  /\ (/\ last.op = "step"
      /\ last.looked_up
      /\ Registry[last.step.processor].input_type = "multi"
      /\ last.resolved_ids = << >>
      /\ last.outcome # "cached")
     => last.outcome = "arity_error" /\ last.invoked = 0
  /\ \A id \in Processed : data_entries[id].description.ids # << >>

\* C7: every entry created by DataProcessor.run has as many parent edges as
\* the run was given input ids, the parents are those ids, and build_tree
\* from the entry has exactly those parents as its children, at depth 1.
C7_LineageIntegrity ==
  \A id \in Processed :
    LET input_ids == data_entries[id].description.ids
        tree == BuildTree(data_relationship, id, TraceDepth, 0)
    IN /\ Cardinality(ParentEdges(id)) = Len(input_ids)
       /\ {e.parent_id : e \in ParentEdges(id)} = Range(input_ids)
       /\ tree.entry = id
       /\ Len(tree.children) = Len(input_ids)
       /\ {tree.children[i].entry : i \in 1..Len(tree.children)} = Range(input_ids)
       /\ \A i \in 1..Len(tree.children) : tree.children[i].depth = 1

\* C7 witness: a merge of two inputs, of which one is itself processed, has
\* two parent edges and two children in its tree.
C7_Witness ==
  \E id \in Processed :
    /\ Len(data_entries[id].description.ids) = 2
    /\ Cardinality(ParentEdges(id)) = 2
    /\ Len(BuildTree(data_relationship, id, TraceDepth, 0).children) = 2
    /\ \E p \in Processed : [parent_id |-> p, child_id |-> id] \in data_relationship

\* C8: every entry whose type is not raw has at least one parent edge, and
\* every entry created by ingestion has type raw and no parent edge.
C8_ParentInvariant ==
  /\ \A id \in 1..Len(data_entries) :
       data_entries[id].type # "raw" => ParentEdges(id) # {}
  /\ \A id \in Loaded :
       data_entries[id].type = "raw" /\ ParentEdges(id) = {}

\* C9: no entry holds two associations to one tag name and no two Tag rows
\* have the same name.
C9_TagIdempotence ==
  /\ \A id \in 1..Len(data_entries) :
       \A name \in BagToSet(data_entries[id].tags) :
         CopiesIn(name, data_entries[id].tags) = 1
  /\ \A i, j \in 1..Len(tags) : tags[i] = tags[j] => i = j

\* C10: a step that names an unregistered processor fails with the
\* unknown-processor error before the cache is looked up and before any
\* processor function is called; the context and the tables stay as they were.
C10_UnknownProcessor ==
  [][ (/\ last'.op = "step"
       /\ last'.step.processor \notin DOMAIN Registry)
      => /\ last'.outcome = "unknown_processor"
         /\ ~last'.looked_up
         /\ last'.invoked = 0
         /\ context' = context
         /\ store' = store
         /\ exports_meta' = exports_meta
         /\ pc' = "aborted"
    ]_vars

\* C10 witness: a step with an unregistered processor failed in a run that
\* had executed a step before it.
C10_Witness ==
  /\ last.op = "step"
  /\ last.outcome = "unknown_processor"
  /\ "out" \in DOMAIN context
  /\ step_cache # << >>
  /\ pc = "aborted"

\* the processed entries that a processor made from the one input id
MadeFrom(processor, id) ==
  {e \in Processed : /\ data_entries[e].description.by = processor
                     /\ data_entries[e].description.ids = << id >>}

\* C11: with the two files ingested and bound to `initial`, a step of the
\* single-arity multiplier on `initial` does not fail on its arity and, once
\* performed, has published one processed entry per input file.
C11_MultiplierOverInitial ==
  (/\ last.op = "step"
   /\ last.step.processor = CsvMultiplier
   /\ last.step.inputs = InputStr("initial")
   /\ Len(last.resolved_ids) = 2)
  => /\ last.outcome # "arity_error"
     /\ \A i \in 1..2 : MadeFrom(CsvMultiplier, last.resolved_ids[i]) # {}

\* seq is still there, position by position, in longer
IsPrefix(seq, longer) ==
  /\ Len(seq) <= Len(longer)
  /\ \A i \in 1..Len(seq) : longer[i] = seq[i]

\* the step just taken ended in an exception
StepFailed(l) == l.op = "step" /\ l.outcome \notin {"cached", "executed"}

\* C12: a step that fails ends the run there: the processor function was
\* called at most once for it, the entries (up to the notes _log_step adds),
\* the edges and the StepCache rows committed before it are still in the
\* store, and after the failure no further step of that run is taken.
C12_AbortOnFailure ==
  [][ /\ (pc = "aborted" => last'.op # "step")
      /\ StepFailed(last') =>
           /\ pc' = "aborted"
           /\ last'.invoked <= 1
           /\ trace' = trace /\ plan' = plan
           /\ IsPrefix(data_entries, data_entries')
           /\ data_relationship \subseteq data_relationship'
           /\ IsPrefix(step_cache, step_cache') ]_vars

\* a run has aborted at its third step, whose processor is not registered,
\* with the work of the two steps before it in the store
C12_Witness ==
  /\ pc = "aborted"
  /\ StepFailed(last)
  /\ last.index = 3
  /\ last.outcome = "unknown_processor"
  /\ Len(trace) = 2
  /\ trace[1].invoked = 1 /\ trace[2].invoked = 1
  /\ Len(step_cache) = 2
  /\ Cardinality(data_relationship) = 2

\* the run in progress repeats a run that aborted at step k = Len(prev.trace)
\* + 1: same load configuration, same mtimes at ingestion, same declarations
\* of steps 1..k-1
RerunOfAborted ==
  /\ prev.outcome = "aborted"
  /\ plan # << >>
  /\ plan.initial_load = prev.initial_load
  /\ plan.mtime = prev.mtime
  /\ Len(plan.steps) >= Len(prev.trace)
  /\ SubSeq(plan.steps, 1, Len(prev.trace)) = SubSeq(prev.steps, 1, Len(prev.trace))

\* a step of the rerun that the aborted run had completed
EarlierStepRedone ==
  /\ last.op = "step"
  /\ RerunOfAborted
  /\ last.index <= Len(prev.trace)

\* the steps the aborted run completed are all declared cache=true and
\* force_rerun=false
PrefixCacheable ==
  \A j \in 1..Len(prev.trace) :
     plan.steps[j].cache /\ ~plan.steps[j].force_rerun

\* C13 as stated: in a rerun of an aborted run, every step that the aborted
\* run had completed is done without calling the processor function and
\* yields the artifact id it yielded in the aborted run.
C13_RerunReusesAll ==
  EarlierStepRedone =>
    /\ last.invoked = 0
    /\ last.out = prev.trace[last.index].out

\* C13, amended: the same, for runs whose completed steps are all declared
\* cache=true and force_rerun=false.
C13_RerunReusesCacheable ==
  (EarlierStepRedone /\ PrefixCacheable) =>
    /\ last.invoked = 0
    /\ last.out = prev.trace[last.index].out

\* the rerun has come to the second step, which the aborted run had executed
\* and which is now taken from the cache
C13_Witness ==
  /\ EarlierStepRedone /\ PrefixCacheable
  /\ last.index = 2
  /\ prev.trace[2].invoked = 1
  /\ last.outcome = "cached"
  /\ last.out = prev.trace[2].out

\* C14: the steps of a run are taken in the order declared, one position at
\* a time, and when step j begins (before it resolves its inputs) the output
\* of every step before it is an entry of the store and is what the step's
\* output variable was bound to; so every id step j resolves is an entry of
\* the store.
C14_OrderAndVisibility ==
  [][ last'.op = "step" =>
        /\ last'.index = IF last.op = "step" THEN last.index + 1 ELSE 1
        /\ last'.step = plan.steps[last'.index]
        /\ Len(trace) = last'.index - 1
        /\ \A i \in 1..Len(trace) :
             /\ trace[i].out \in 1..Len(data_entries)
             /\ plan.steps[i].output_var \in DOMAIN context
             /\ \/ context[plan.steps[i].output_var] = << trace[i].out >>
                \/ \E k \in (i + 1)..Len(trace) :
                     plan.steps[k].output_var = plan.steps[i].output_var
        /\ last'.resolved_ids = ResolveInputs(context, last'.step.inputs)
        /\ \A id \in Range(last'.resolved_ids) : id \in 1..Len(data_entries) ]_vars

\* the third step of a run has worked on the entries that the first and the
\* second step of the same run had just made
C14_Witness ==
  /\ last.op = "step"
  /\ last.index = 3
  /\ last.outcome = "executed"
  /\ Len(trace) = 3
  /\ trace[1].invoked = 1 /\ trace[2].invoked = 1
  /\ last.resolved_ids = << trace[1].out, trace[2].out >>

\* C17: every edge goes from an entry with a lower id to one with a higher
\* id, that is from an entry that was in the store before the other was
\* created (ids are given in order of creation), so that there is neither a
\* self-edge nor a cycle; and an operation that adds edges adds them to an
\* entry it creates, from entries that were there before.
C17_LineageDag ==
  [][ /\ \A e \in data_relationship' : e.parent_id < e.child_id
      /\ data_relationship \subseteq data_relationship'
      /\ \A e \in data_relationship' \ data_relationship :
           /\ e.child_id \notin 1..Len(data_entries)
           /\ e.child_id \in 1..Len(data_entries')
           /\ e.parent_id \in 1..Len(data_entries) ]_vars

\* an entry made from two parents is in turn a parent of a later entry
C17_Witness ==
  \E e, f, g \in data_relationship :
     /\ e.child_id = f.child_id /\ e.parent_id # f.parent_id
     /\ g.parent_id = e.child_id

\* C18: a call of DataProcessor.run that returns has added one entry, with
\* an edge from each of its inputs and with each tag the processor function
\* returned, and has touched nothing else; a call that raises, for whatever
\* reason, leaves entries, edges and tags as they were.
C18_RunAtomic ==
  [][ last'.op = "process" =>
        IF last'.outcome = "ok"
        THEN /\ last'.out = Len(data_entries) + 1
             /\ Len(data_entries') = Len(data_entries) + 1
             /\ IsPrefix(data_entries, data_entries')
             /\ data_relationship' =
                  data_relationship \cup
                    {[parent_id |-> p, child_id |-> last'.out] :
                       p \in Range(last'.input_ids)}
             /\ \A t \in Range(last'.result_tags) :
                  /\ BagIn(t, data_entries'[last'.out].tags)
                  /\ t \in Range(tags')
             /\ IsPrefix(tags, tags')
        ELSE /\ last'.outcome \in {"unknown_processor", "arity_error",
                                   "missing_input", "processor_error",
                                   "bad_return", "tag_error", "integrity_error"}
             /\ data_entries' = data_entries
             /\ data_relationship' = data_relationship
             /\ tags' = tags ]_vars

\* a call has returned an entry made from two inputs and carrying the tag
\* that the processor function returned
C18_Witness ==
  /\ last.op = "process"
  /\ last.outcome = "ok"
  /\ Len(last.input_ids) = 2
  /\ Cardinality(ParentEdges(last.out)) = 2
  /\ last.result_tags = << "t" >>
  /\ BagIn("t", data_entries[last.out].tags)

\* C19: a registration (with input type single or multi) under a name that
\* is there fails as a duplicate and changes nothing, as does one with
\* another input type; without a name the key is the function's __name__; a
\* lookup finds exactly the names that are registered, with the descriptor
\* registered; and no transition removes or changes a registration, so a name
\* once found is found with that descriptor ever after.
C19_Registry ==
  [][ /\ \A n \in DOMAIN processors :
           n \in DOMAIN processors' /\ processors'[n] = processors[n]
      /\ last'.op = "register" =>
           /\ ~last'.name.given => last'.key \in {last'.func.name, << >>}
           /\ last'.name.given => last'.key \in {last'.name.value, << >>}
           /\ last'.key \in DOMAIN processors =>
                last'.outcome = "duplicate" /\ processors' = processors
           /\ last'.outcome = "duplicate" => last'.key \in DOMAIN processors
           /\ last'.outcome = "ok" =>
                /\ DOMAIN processors' = (DOMAIN processors) \cup {last'.key}
                /\ processors'[last'.key].func = last'.func.name
                /\ processors'[last'.key].input_type = last'.input_type
                /\ processors'[last'.key].hash = CalculateHash(last'.func.digest)
                /\ Head(processors'[last'.key].output_ext) = "."
           /\ last'.outcome # "ok" => processors' = processors
      /\ last'.op = "get" =>
           /\ last'.found <=> last'.name \in DOMAIN processors
           /\ last'.found => last'.desc = processors[last'.name] ]_vars

\* a function registered without a name has been registered again, the
\* second time with another body, and the second registration was refused
C19_Witness ==
  /\ last.op = "register"
  /\ last.outcome = "duplicate"
  /\ ~last.name.given
  /\ last.key = MergeTextFiles.name
  /\ processors[last.key].hash # CalculateHash(last.func.digest)

\* the paths on disk that a load configuration asks for: matched by one
\* include spec at least (its glob, and its regex if it has one), and by no
\* exclude pattern
WantedPaths(config) ==
  {f \in Files :
     /\ \E i \in 1..Len(config.include_patterns) :
          /\ f \in config.include_patterns[i].path
          /\ config.include_patterns[i].re_pattern.given =>
               f \in config.include_patterns[i].re_pattern.matches
     /\ \A j \in 1..Len(config.exclude_patterns) :
          f \notin config.exclude_patterns[j]}

\* C15: a run whose load configuration asks for no path fails in ingestion
\* with the no-match error: entries, FileMTimeCache rows and tags are as
\* before, the context has no binding, and no step of that run is taken.
C15_ZeroMatch ==
  [][ /\ (last'.op = "load" /\ WantedPaths(plan'.initial_load) = {}) =>
           /\ last'.outcome = "no_match"
           /\ data_entries' = data_entries
           /\ file_mtime_cache' = file_mtime_cache
           /\ tags' = tags
           /\ data_relationship' = data_relationship
           /\ context' = EmptyMap
           /\ pc' = "aborted"
      /\ (last.op = "load" /\ last.outcome = "no_match") => last'.op # "step" ]_vars

\* after a run that ingested the files, a run has failed with no match
C15_Witness ==
  /\ last.op = "load"
  /\ last.outcome = "no_match"
  /\ WantedPaths(plan.initial_load) = {}
  /\ plan.steps # << >>
  /\ Len(data_entries) >= 2
  /\ pc = "aborted"

\* the entries that the transition has added to the store
NewIds == (1..Len(data_entries')) \ (1..Len(data_entries))

\* C16: the ids that ingestion returns and binds to `initial` are, in
\* ascending order of path, one for each wanted path and for no other; the
\* entries it creates are of wanted paths, one per path at most.
C16_IngestionResult ==
  [][ last'.op = "load" =>
        LET want == WantedPaths(last'.config)
            ids == last'.ids
            path(i) == data_entries'[ids[i]].original_path
        IN /\ last'.outcome = "ok" <=> want # {}
           /\ Len(ids) = Cardinality(want)
           /\ \A i \in 1..Len(ids) :
                ids[i] \in 1..Len(data_entries') /\ path(i) \in want
           /\ \A i, j \in 1..Len(ids) :
                i < j => FileRank(path(i)) < FileRank(path(j))
           /\ last'.outcome = "ok" => context'["initial"] = ids
           /\ \A n \in NewIds :
                /\ data_entries'[n].original_path \in want
                /\ \A m \in NewIds :
                     data_entries'[m].original_path = data_entries'[n].original_path
                       => m = n ]_vars

\* a load whose two include specs both match the second file, and whose
\* second spec matches the first file too, has returned the two files in
\* path order
C16_Witness ==
  /\ last.op = "load"
  /\ Len(last.config.include_patterns) = 2
  /\ Len(last.ids) = 2
  /\ data_entries[last.ids[1]].original_path = FileA
  /\ data_entries[last.ids[2]].original_path = FileB

\* the positions of the FileMTimeCache rows of a path
RowsOf(rows, f) == {i \in 1..Len(rows) : rows[i].file_path = f}

\* C20: for each file it loads, ingestion reuses the entry of the path's most
\* recently inserted FileMTimeCache row if and only if that row holds the
\* file's current mtime, whatever the older rows hold; otherwise it creates
\* an entry and inserts a row, which becomes the most recent one.  Rows
\* already there are neither removed nor changed.
C20_MTimeCacheAuthority ==
  [][ /\ IsPrefix(file_mtime_cache, file_mtime_cache')
      /\ (last'.op = "load" /\ last'.outcome = "ok") =>
           \A i \in 1..Len(last'.files) :
             LET f == last'.files[i]
                 old == RowsOf(file_mtime_cache, f)
                 new == RowsOf(file_mtime_cache', f) \ old
                 newest == CHOOSE r \in old : \A q \in old : q <= r
             IN IF old # {} /\ file_mtime_cache[newest].last_mtime = mtime[f]
                THEN /\ last'.ids[i] = file_mtime_cache[newest].data_entry_id
                     /\ new = {}
                ELSE /\ last'.ids[i] \in NewIds
                     /\ Cardinality(new) = 1
                     /\ \A r \in new :
                          /\ file_mtime_cache'[r].data_entry_id = last'.ids[i]
                          /\ file_mtime_cache'[r].last_mtime = mtime[f] ]_vars

\* a file has been ingested three times, its mtime going t1, t2, t1: it has
\* three rows and three entries, and the third ingestion returned the third
C20_Witness ==
  /\ last.op = "load"
  /\ \E a, b, c \in RowsOf(file_mtime_cache, FileA) :
       /\ a < b /\ b < c
       /\ file_mtime_cache[a].last_mtime = file_mtime_cache[c].last_mtime
       /\ file_mtime_cache[b].last_mtime # file_mtime_cache[a].last_mtime
       /\ file_mtime_cache[a].data_entry_id # file_mtime_cache[c].data_entry_id
       /\ file_mtime_cache[b].data_entry_id # file_mtime_cache[c].data_entry_id
       /\ last.ids[1] = file_mtime_cache[c].data_entry_id

\* the StepCache rows of a key that no later row of the key follows, as the
\* step finds them
Authoritative(key) ==
  {i \in 1..Len(step_cache) :
     /\ step_cache[i].input_hash = key
     /\ \A j \in (i + 1)..Len(step_cache) : step_cache[j].input_hash # key}

\* C21: a step that is satisfied from the cache has taken the output id of
\* the row inserted last under its key, whatever rows were inserted under
\* that key before; and a step declared cache=true and not forced whose key
\* has a row is satisfied from the cache.
C21_StepCacheAuthority ==
  [][ (/\ last'.op = "step"
       /\ last'.looked_up
       /\ last'.step.cache /\ ~last'.step.force_rerun
       /\ Authoritative(last'.step_hash) # {})
      => /\ last'.invoked = 0
         /\ Cardinality(Authoritative(last'.step_hash)) = 1
         /\ \A i \in Authoritative(last'.step_hash) :
              last'.out = step_cache[i].output_id ]_vars

\* a key has two rows, the second from a forced rerun, and a step that was
\* not forced has reused the output of the second
C21_Witness ==
  /\ last.op = "step"
  /\ last.outcome = "cached"
  /\ \E a, b \in 1..Len(step_cache) :
       /\ a < b
       /\ step_cache[a].input_hash = last.step_hash
       /\ step_cache[b].input_hash = last.step_hash
       /\ step_cache[a].output_id # step_cache[b].output_id
       /\ last.out = step_cache[b].output_id

\* the step of the transition got an entry from DataProcessor.run
Executed == last'.op = "step" /\ last'.invoked = 1 /\ last'.out \in NewIds

\* C22: a step declared cache=false that comes to DataProcessor.run is never
\* satisfied from the cache, even when its key has a row, and leaves StepCache
\* as it is; a step declared cache=true for which DataProcessor.run returns
\* an entry adds exactly one row, of its key and that entry.
C22_CacheFlag ==
  [][ /\ (last'.op = "step" /\ ~last'.step.cache) =>
           /\ last'.outcome # "cached"
           /\ step_cache' = step_cache
           /\ last'.outcome \notin {"unknown_processor", "arity_error"} =>
                last'.invoked = 1
           /\ last'.outcome = "executed" => last'.out \in NewIds
      /\ (Executed /\ last'.step.cache) =>
           step_cache' = Append(step_cache, [input_hash |-> last'.step_hash,
                                             output_id |-> last'.out]) ]_vars

\* C23: a step that completes, from the cache or by execution, leaves the
\* context as it was but for its output variable, which is bound (anew if it
\* was bound) to the list of one id, the id of an entry of the store.
C23_ContextShape ==
  [][ (last'.op = "step" /\ last'.outcome \in {"cached", "executed"}) =>
        LET output_var == last'.step.output_var
        IN /\ DOMAIN context' = (DOMAIN context) \cup {output_var}
           /\ \A v \in (DOMAIN context) \ {output_var} : context'[v] = context[v]
           /\ Len(context'[output_var]) = 1
           /\ context'[output_var][1] = last'.out
           /\ last'.out \in 1..Len(data_entries') ]_vars

\* a step has worked on the entry that its own output variable was bound to,
\* and the variable is now bound to the entry it made
C23_Witness ==
  /\ last.op = "step"
  /\ last.outcome = "executed"
  /\ last.step.inputs = InputStr(last.step.output_var)
  /\ Len(last.resolved_ids) = 1
  /\ context[last.step.output_var] = << last.out >>
  /\ last.out # last.resolved_ids[1]
  /\ "initial" \in DOMAIN context

\* The children of a node are the parents of its artifact, in order, one
\* level down, as long as the node is above the last level the bound allows;
\* a node on the last level has no children.
RECURSIVE WithinBound(_, _)
WithinBound(node, d) ==
  /\ node.depth < d
  /\ IF node.depth < d - 1
     THEN LET parents == Parents(data_relationship, node.entry)
          IN /\ Len(node.children) = Len(parents)
             /\ \A i \in 1..Len(parents) :
                  /\ node.children[i].entry = parents[i]
                  /\ node.children[i].depth = node.depth + 1
                  /\ WithinBound(node.children[i], d)
     ELSE node.children = << >>

\* C24: build_tree with bound d returns a tree in which every node has depth
\* below d, the children of every node at depth below d-1 are the parents of
\* its artifact in order, a node at depth d-1 has no children, and with
\* d = 0 no tree is built.
C24_DepthBound ==
  (last.op = "trace" /\ last.found) =>
    IF last.depth = 0 THEN last.root = NoNode
    ELSE /\ last.root # NoNode
         /\ last.root.entry = last.id
         /\ last.root.depth = 0
         /\ WithinBound(last.root, last.depth)

\* C24 witness: a trace with bound 3 of an artifact with two parents, one of
\* which has a grandparent of its own that the bound cuts off.
C24_Witness ==
  /\ last.op = "trace"
  /\ last.depth = 3
  /\ Len(last.root.children) = 2
  /\ \E i \in 1..Len(last.root.children) :
       \E j \in 1..Len(last.root.children[i].children) :
         LET node == last.root.children[i].children[j]
         IN /\ node.depth = 2
            /\ node.children = << >>
            /\ Parents(data_relationship, node.entry) # << >>

\* The parts that every one of the given paths begins with
SharedParts(paths) ==
  LET one == CHOOSE p \in paths : TRUE
      shared == {n \in 0..Len(one) :
                   \A p \in paths : n <= Len(p) /\ SubSeq(p, 1, n) = SubSeq(one, 1, n)}
      n == CHOOSE x \in shared : \A y \in shared : y <= x
  IN SubSeq(one, 1, n)

\* Where the export of a raw artifact is to be found: under the export
\* directory, at the original path less the parts shared by the original
\* paths of all the raw nodes (the file name, when all of it is shared).
ExportTarget(id, raw) ==
  LET parts(k) == OriginalPath(data_entries[k].original_path).parts
      shared == SharedParts({parts(raw[i]) : i \in 1..Len(raw)})
      below == SubSeq(parts(id), Len(shared) + 1, Len(parts(id)))
  IN PathOf(TRUE, last.export_path.parts
                    \o (IF below = << >> THEN << parts(id)[Len(parts(id))] >> ELSE below))

\* C25: an export of a lineage tree copies, for every raw node whose source
\* file still exists, the original file to the export directory under its
\* original path relative to the common prefix of the raw nodes' original
\* paths, for relative original paths as for absolute ones; a raw node whose
\* source file is gone is skipped and keeps no other node from being exported.
C25_LineageExport ==
  (last.op = "trace" /\ last.exporting) =>
    LET raw == RawNodes(data_entries, last.root)
    IN /\ Len(last.exports) = Len(raw)
       /\ \A i \in 1..Len(raw) :
            /\ last.exports[i].entry = raw[i]
            /\ IF data_entries[raw[i]].original_path \in last.missing
               THEN last.exports[i].outcome = "source_missing"
               ELSE /\ last.exports[i].outcome = "exported"
                    /\ last.exports[i].dest = ExportTarget(raw[i], raw)

\* C26: whenever an ingestion stops, by completing or by failing at a later
\* matched file, every file that the pass has copied into raw storage has
\* its artifact row and its FileMTimeCache row committed.
C26_CommitGranularity ==
  last.op = "load" =>
    \A i \in 1..Len(last.copied) :
      \E k \in 1..Len(file_mtime_cache) :
        /\ file_mtime_cache[k].file_path = last.copied[i]
        /\ file_mtime_cache[k].last_mtime = mtime[last.copied[i]]
        /\ file_mtime_cache[k].data_entry_id \in 1..Len(data_entries)
        /\ data_entries[file_mtime_cache[k].data_entry_id].original_path = last.copied[i]

\* C27: after an ingestion that has matched files, every matched file has a
\* FileMTimeCache row with its path and the modification time just observed,
\* which refers to an existing artifact whose original path is that path (the
\* new artifact, for a file that was not reused); and every FileMTimeCache
\* row refers to an existing artifact whose original path is the row's path.
C27_NewFileRecord ==
  /\ (last.op = "load" /\ last.outcome # "no_match") =>
       \A i \in 1..Len(last.files) :
         \E k \in 1..Len(file_mtime_cache) :
           /\ file_mtime_cache[k].file_path = last.files[i]
           /\ file_mtime_cache[k].last_mtime = mtime[last.files[i]]
           /\ file_mtime_cache[k].data_entry_id \in 1..Len(data_entries)
           /\ data_entries[file_mtime_cache[k].data_entry_id].original_path
                = last.files[i]
  /\ \A k \in 1..Len(file_mtime_cache) :
       /\ file_mtime_cache[k].data_entry_id \in 1..Len(data_entries)
       /\ data_entries[file_mtime_cache[k].data_entry_id].original_path
            = file_mtime_cache[k].file_path

\* C28: whenever a step is satisfied from the cache, the reused artifact was
\* produced by an execution of the processor of the same name, with the same
\* params and with the same input ids in the same order as the step's
\* resolved inputs.
C28_CacheHitSound ==
  (last.op = "step" /\ last.outcome = "cached") =>
    /\ last.out \in Processed
    /\ data_entries[last.out].description.by = last.step.processor
    /\ data_entries[last.out].description.params = last.step.params
    /\ data_entries[last.out].description.ids = last.resolved_ids

\* C29: whenever a step with cache=true has left a new processed artifact in
\* the store, whether the run goes on or stops there by an error raised
\* after the processor succeeded, the artifact has a StepCache row pointing
\* to it, carries the provenance note of the step, and is bound in the
\* context under the step's output name.
C29_StepAtomic ==
  [][ (last'.op = "step" /\ last'.step.cache)
      => \A id \in NewIds :
           /\ \E k \in 1..Len(step_cache') : step_cache'[k].output_id = id
           /\ data_entries'[id].description.notes # << >>
           /\ last'.step.output_var \in DOMAIN context'
           /\ context'[last'.step.output_var] = << id >> ]_vars

\* The cache key of the execution that made a processed artifact
KeyOfEntry(id) ==
  LET made == data_entries[id].description
  IN GenerateStepHash(made.by, GetProcessor(made.by).desc.hash, made.ids, made.params)

\* Both runners have executed the step and inserted their rows
BothInserted(r, o) ==
  /\ runners.of[r].pc = "done" /\ runners.of[r].seen.outcome = "executed"
  /\ runners.of[o].pc = "done" /\ runners.of[o].seen.outcome = "executed"

\* C30: as long as no execute has started while another was under way (and
\* no step is declared force_rerun), StepCache holds no two rows with the
\* same input_hash and no two artifacts were made by executions with the same
\* cache key; and when a runner has looked up a key while the other was
\* between its own lookup of that key and its insert, and both have inserted,
\* StepCache holds two rows with that input_hash and different output ids.
C30_SingleRunner ==
  /\ ~runners.overlap =>
       /\ \A i, j \in 1..Len(step_cache) :
            i # j => step_cache[i].input_hash # step_cache[j].input_hash
       /\ \A d, e \in Processed : d # e => KeyOfEntry(d) # KeyOfEntry(e)
  /\ \A r \in RunnerIds, o \in RunnerIds :
       (r # o /\ runners.of[r].raced /\ BothInserted(r, o)) =>
         \E i, j \in 1..Len(step_cache) :
           /\ step_cache[i].input_hash = runners.of[r].seen.step_hash
           /\ step_cache[j].input_hash = runners.of[r].seen.step_hash
           /\ step_cache[i].output_id = runners.of[r].seen.out
           /\ step_cache[j].output_id = runners.of[o].seen.out
           /\ step_cache[i].output_id # step_cache[j].output_id
====
